---- MODULE Spec2Model ----
(***************************************************************************)
(* Model of the Fulcrum -> iCalendar feed server (src/server.js).          *)
(*                                                                         *)
(* Representation                                                          *)
(*   - A timestamp is the number of seconds since 1970-01-01T00:00:00Z;    *)
(*     0 stands for an absent (null / undefined / "") timestamp, which is  *)
(*     exactly what JavaScript's `a || b` treats as absent.                *)
(*   - Text is a TLA+ string; "" stands for an absent text field.          *)
(*   - An optional number or object is a sequence of length 0 or 1.        *)
(*   - A string is a sequence of UTF-16 code units, as in JavaScript.      *)
(*     Four ASCII characters stand for the non-ASCII code units:           *)
(*       "~" a character of 2 UTF-8 bytes,  "^" one of 3 UTF-8 bytes,      *)
(*       "{" a high surrogate, "}" a low surrogate ("{}" is one character  *)
(*       of 4 UTF-8 bytes).                                                *)
(*   - sha1 is a symbolic injective function.                              *)
(*                                                                         *)
(* Specifications                                                          *)
(*   Spec        the /calendar.ics route under concurrent requests         *)
(*   SpecRender  one job through events, icsBody, ics, finalizeIcs, send   *)
(*   SpecPick    pickPrimaryOperation called twice on one input            *)
(***************************************************************************)
EXTENDS Integers, Sequences, FiniteSets, TLC

(* ------------------------------ config ------------------------------- *)
\* seconds; process.env.CACHE_TTL_SECONDS of the modelled deployment
CACHE_TTL_SECONDS == 1
\* milliseconds; process.env.OPS_CACHE_TTL_MS of the modelled deployment
OPS_CACHE_TTL_MS == 500
\* process.env.OPS_CONCURRENCY
OPS_CONCURRENCY == 2
\* the configured shared secret of this deployment
ACCESS_KEY == "k"
\* the RFC 5545 line limit used by foldLines
FOLD_OCTETS == 75
\* the size cap of the operation cache in cachePutOps (500 in the source,
\* scaled down so that a handful of jobs can exceed it)
OPS_CACHE_CAP == 2

(* ------------------------- JavaScript basics ------------------------- *)
Min(a, b) == IF a < b THEN a ELSE b
Max(a, b) == IF a > b THEN a ELSE b

\* a || b on timestamps
OrT(a, b) == IF a # 0 THEN a ELSE b
\* a || b on text
OrS(a, b) == IF a # "" THEN a ELSE b

\* String(n).padStart(2, "0")
pad(n) == IF n < 10 THEN "0" \o ToString(n) ELSE ToString(n)

SecondsPerDay == 24 * 60 * 60

\* Day number (days since 1970-01-01) of the first day of month m (1..12) of
\* year y, then d - 1 days on: ECMAScript MakeDay(y, m - 1, d). d may be out
\* of the month's range, as in setUTCDate.
MakeDay(y, m, d) ==
  LET yy  == IF m <= 2 THEN y - 1 ELSE y
      era == yy \div 400
      yoe == yy - era * 400
      mp  == IF m > 2 THEN m - 3 ELSE m + 9
      doy == (153 * mp + 2) \div 5
      doe == yoe * 365 + yoe \div 4 - yoe \div 100 + doy
  IN  era * 146097 + doe - 719468 + (d - 1)

\* getUTCFullYear / getUTCMonth + 1 / getUTCDate of a day number.
CivilFromDays(z0) ==
  LET z   == z0 + 719468
      era == z \div 146097
      doe == z - era * 146097
      yoe == (doe - doe \div 1460 + doe \div 36524 - doe \div 146096) \div 365
      doy == doe - (365 * yoe + yoe \div 4 - yoe \div 100)
      mp  == (5 * doy + 2) \div 153
      d   == doy - (153 * mp + 2) \div 5 + 1
      m   == IF mp < 10 THEN mp + 3 ELSE mp - 9
      y   == yoe + era * 400 + (IF m <= 2 THEN 1 ELSE 0)
  IN  [y |-> y, m |-> m, d |-> d]

\* the UTC fields of the instant t whose civil date is c
FieldsOf(c, sod) ==
  [y |-> c.y, m |-> c.m, d |-> c.d,
   hh |-> sod \div 3600, mi |-> (sod % 3600) \div 60, ss |-> sod % 60]

\* new Date(dt): the UTC fields of an instant
UtcFields(t) == FieldsOf(CivilFromDays(t \div SecondsPerDay), t % SecondsPerDay)

\* `${getUTCFullYear()}${pad(getUTCMonth() + 1)}${pad(getUTCDate())}`
DateDigits(d) == ToString(d.y) \o pad(d.m) \o pad(d.d)
\* `${pad(getUTCHours())}${pad(getUTCMinutes())}${pad(getUTCSeconds())}`
TimeDigits(d) == pad(d.hh) \o pad(d.mi) \o pad(d.ss)
StampDigits(d) == DateDigits(d) \o "T" \o TimeDigits(d) \o "Z"

toUTC(dt) == StampDigits(UtcFields(dt))

yyyymmdd(dateLike) == DateDigits(UtcFields(dateLike))

\* SetUTCDate that wraps within the month instead of carrying into the next
SetUTCDateSameMonth(d, n) ==
  MakeDay(d.y, d.m, IF d.d + n > 28 THEN 1 ELSE d.d + n) * SecondsPerDay
    + d.hh * 3600 + d.mi * 60 + d.ss

\* d.setUTCDate(d.getUTCDate() + n) on the UTC fields d of an instant
SetUTCDate(d, n) ==
  MakeDay(d.y, d.m, d.d + n) * SecondsPerDay + d.hh * 3600 + d.mi * 60 + d.ss

\* d.setUTCDate(d.getUTCDate() + n); d.toISOString()  (the ISO string is
\* read back with new Date, so it is modelled by its instant)
addDaysISO(dateLike, n) == SetUTCDate(UtcFields(dateLike), n)

(* ------------------------------ text --------------------------------- *)
Char(s, i) == SubSeq(s, i, i)

\* the least element of a non-empty set of integers
Least(S) == CHOOSE i \in S : \A k \in S : i <= k

RECURSIVE EscapeFrom(_, _)
\* the text from position i on, with each "," ";" and newline escaped
EscapeFrom(s, i) ==
  LET special == {k \in i..Len(s) : Char(s, k) \in {",", ";", "\n"}}
  IN  IF special = {} THEN SubSeq(s, i, Len(s))
      ELSE LET k == Least(special)
               c == Char(s, k)
           IN  SubSeq(s, i, k - 1)
                 \o (IF c = "\n" THEN "\\n" ELSE "\\" \o c)
                 \o EscapeFrom(s, k + 1)

\* String(s || "").replace(/([,;])/g, "\\$1").replace(/\n/g, "\\n")
icsEscape(s) == EscapeFrom(s, 1)

RECURSIVE Join(_, _)
\* Array.prototype.join
Join(seq, sep) ==
  IF Len(seq) = 0 THEN ""
  ELSE IF Len(seq) = 1 THEN seq[1]
  ELSE seq[1] \o sep \o Join(Tail(seq), sep)

\* .filter(Boolean) on an array of strings / nulls
FilterBoolean(seq) == SelectSeq(seq, LAMBDA x : x # "")

\* the UTF-8 bytes of the code unit at position i of s: a surrogate pair is
\* 4 bytes (2 for each half), a lone surrogate is encoded as U+FFFD (3 bytes)
UnitBytes(s, i) ==
  LET c == Char(s, i)
  IN  IF c = "~" THEN 2
      ELSE IF c = "^" THEN 3
      ELSE IF c = "{" THEN (IF i < Len(s) /\ Char(s, i + 1) = "}" THEN 2 ELSE 3)
      ELSE IF c = "}" THEN (IF i > 1 /\ Char(s, i - 1) = "{" THEN 2 ELSE 3)
      ELSE 1

\* Buffer.byteLength(s, "utf8")
byteLength(s) ==
  Len(s) + Cardinality({i \in 1..Len(s) : UnitBytes(s, i) >= 2})
         + Cardinality({i \in 1..Len(s) : UnitBytes(s, i) >= 3})

\* String.prototype.slice(a, b) with 0-based, clamped indices
slice(s, a, b) == SubSeq(s, a + 1, IF b > Len(s) THEN Len(s) ELSE b)

RECURSIVE SplitAt(_, _, _)
\* the pieces of s from position start on, cut at the separators seps (the
\* positions of the "\r" of each "\r\n" not before start)
SplitAt(s, start, seps) ==
  IF seps = {} THEN << SubSeq(s, start, Len(s)) >>
  ELSE LET i == Least(seps)
       IN  << SubSeq(s, start, i - 1) >>
             \o SplitAt(s, i + 2, {k \in seps : k >= i + 2})

\* text.split("\r\n")
SplitCRLF(s) ==
  SplitAt(s, 1, {i \in 1..(Len(s) - 1) : Char(s, i) = "\r" /\ Char(s, i + 1) = "\n"})

RECURSIVE FindCut(_, _)
\* while (cut > 0 && Buffer.byteLength(cur.slice(0, cut)) > 75) cut--
FindCut(cur, cut) ==
  IF cut > 0 /\ byteLength(slice(cur, 0, cut)) > FOLD_OCTETS
  THEN FindCut(cur, cut - 1)
  ELSE cut

RECURSIVE FoldLine(_)
\* the inner while loop of foldLines for one line: the pieces pushed to out
FoldLine(cur) ==
  IF byteLength(cur) > FOLD_OCTETS
  THEN LET cut == FindCut(cur, FOLD_OCTETS)
       IN  << slice(cur, 0, cut) >> \o FoldLine(" " \o slice(cur, cut, Len(cur)))
  ELSE << cur >>

RECURSIVE FoldAll(_)
FoldAll(lines) ==
  IF Len(lines) = 0 THEN << >>
  ELSE FoldLine(lines[1]) \o FoldAll(Tail(lines))

foldLines(text) == Join(FoldAll(SplitCRLF(text)), "\r\n")

endsWithCRLF(s) == Len(s) >= 2 /\ SubSeq(s, Len(s) - 1, Len(s)) = "\r\n"

finalizeIcs(ics) == foldLines(IF endsWithCRLF(ics) THEN ics ELSE ics \o "\r\n")

\* crypto.createHash("sha1").update(x).digest("hex"), kept symbolic
sha1(x) == "sha1(" \o x \o ")"

(* ----------------------- operation selection ------------------------- *)
\* o.scheduledStartUtc || o.originalScheduledStartUtc
OpStart(o) == OrT(o.scheduledStartUtc, o.originalScheduledStartUtc)
\* o.scheduledEndUtc || o.originalScheduledEndUtc
OpEnd(o) == OrT(o.scheduledEndUtc, o.originalScheduledEndUtc)
\* job.scheduledStartUtc || job.originalScheduledStartUtc || job.productionDueDate
JobStart(j) == OrT(OrT(j.scheduledStartUtc, j.originalScheduledStartUtc), j.productionDueDate)
\* job.scheduledEndUtc || job.originalScheduledEndUtc
JobEnd(j) == OrT(j.scheduledEndUtc, j.originalScheduledEndUtc)

RECURSIVE InsertByStartUnstable(_, _)
\* InsertByStart putting o before the elements that start with it
InsertByStartUnstable(sorted, o) ==
  IF Len(sorted) = 0 THEN << o >>
  ELSE IF OpStart(sorted[1]) - OpStart(o) < 0
       THEN << sorted[1] >> \o InsertByStartUnstable(Tail(sorted), o)
       ELSE << o >> \o sorted

RECURSIVE InsertByStart(_, _)
\* o goes after every element whose start is not later than its own
InsertByStart(sorted, o) ==
  IF Len(sorted) = 0 THEN << o >>
  ELSE IF OpStart(sorted[1]) - OpStart(o) <= 0
       THEN << sorted[1] >> \o InsertByStart(Tail(sorted), o)
       ELSE << o >> \o sorted

RECURSIVE SortInto(_, _)
SortInto(sorted, rest) ==
  IF Len(rest) = 0 THEN sorted
  ELSE SortInto(InsertByStart(sorted, rest[1]), Tail(rest))

\* Array.prototype.sort with the comparator start(a) - start(b); the sort of
\* Node 11+ (ES2019) is stable
sortCandidates(cands) == SortInto(<< >>, cands)

\* Array.prototype.find, hits being the positions of seq that satisfy the
\* predicate: << >> (undefined) or the first element satisfying it
find(seq, hits) == IF hits = {} THEN << >> ELSE << seq[Least(hits)] >>

\* pickPrimaryOperation that never looks at the job's window
pickEarliestOperation(job, ops) ==
  IF Len(ops) = 0 THEN << >>
  ELSE LET candidates == sortCandidates(SelectSeq(ops, LAMBDA o : OpStart(o) # 0))
       IN  IF Len(candidates) = 0 THEN << >> ELSE << candidates[1] >>

pickPrimaryOperation(job, ops) ==
  IF Len(ops) = 0 THEN << >>
  ELSE
    LET jStart == JobStart(job)
        jEnd   == JobEnd(job)
        candidates == sortCandidates(SelectSeq(ops, LAMBDA o : OpStart(o) # 0))
        Overlaps(o) ==
          LET os == OpStart(o)
              oe == OrT(OpEnd(o), os)
          IN  IF jEnd # 0 THEN os <= jEnd /\ oe >= jStart ELSE os >= jStart
    IN  IF Len(candidates) = 0 THEN << >>
        ELSE IF jStart # 0
             THEN LET overlapping == find(candidates, {i \in 1..Len(candidates) : Overlaps(candidates[i])})
                  IN  IF overlapping # << >> THEN overlapping ELSE << candidates[1] >>
             ELSE << candidates[1] >>

(* --------------------------- event mapping --------------------------- *)
\* what primaryOp?.field yields when primaryOp is null
NullOp == [id |-> "", name |-> "", scheduledEquipmentName |-> "",
           scheduledStartUtc |-> 0, originalScheduledStartUtc |-> 0,
           scheduledEndUtc |-> 0, originalScheduledEndUtc |-> 0]
\* what itemToMake?.field yields when itemToMake is null
NullItem == [name |-> "", number |-> "", description |-> "", quantityToMake |-> << >>]

Opt(x, null) == IF Len(x) = 0 THEN null ELSE x[1]

mapJobToEvent(job, primaryOp, itemToMake) ==
  LET op       == Opt(primaryOp, NullOp)
      item     == Opt(itemToMake, NullItem)
      jobStart == JobStart(job)
      jobEnd   == JobEnd(job)
      opStart  == OpStart(op)
      opEnd    == OpEnd(op)
      start    == OrT(jobStart, opStart)
      end0     == OrT(OrT(jobEnd, opEnd), start)
      end      == IF end0 = 0 /\ start # 0 THEN addDaysISO(start, 1) ELSE end0
      title    == OrS(job.name,
                      IF Len(job.number) > 0
                      THEN "Job #" \o ToString(job.number[1])
                      ELSE "Scheduled Work")
      number   == IF Len(job.number) > 0 THEN "#" \o ToString(job.number[1]) ELSE ""
      status   == job.status
      project  == job.salesOrderId
      equipment == op.scheduledEquipmentName
      opName   == op.name
      itemName == OrS(item.name, item.number)
      itemDesc == item.description
      qtyMake  == IF Len(item.quantityToMake) > 0
                  THEN "Qty: " \o ToString(item.quantityToMake[1]) ELSE ""
      summary  == Join(FilterBoolean(<< title, number,
                         IF opName # "" THEN "(" \o opName \o ")" ELSE "" >>), " ")
      descLines == FilterBoolean(<<
                     IF status # "" THEN "Status: " \o status ELSE "",
                     IF project # "" THEN "Sales Order: " \o project ELSE "",
                     IF equipment # "" THEN "Equipment: " \o equipment ELSE "",
                     IF opName # "" THEN "Operation: " \o opName ELSE "",
                     IF itemName # "" THEN "Item: " \o itemName ELSE "",
                     IF itemDesc # "" THEN "Desc: " \o itemDesc ELSE "",
                     qtyMake,
                     IF job.id # "" THEN "Job ID: " \o job.id ELSE "" >>)
  IN  [id |-> job.id, start |-> start, end |-> end, summary |-> summary,
       location |-> equipment,
       description |-> Join(descLines, "\\n"),
       categories |-> FilterBoolean(<< equipment, opName, status >>)]

(* --------------------------- serialization --------------------------- *)
MapEscape(seq) == [i \in 1..Len(seq) |-> icsEscape(seq[i])]

\* the property lines shared by veventTimed and veventAllDay, after DTEND
TextLines(e) ==
  << "SUMMARY:" \o icsEscape(OrS(e.summary, "Scheduled Work")),
     IF e.location # "" THEN "LOCATION:" \o icsEscape(e.location) ELSE "",
     IF e.description # "" THEN "DESCRIPTION:" \o icsEscape(e.description) ELSE "",
     IF Len(e.categories) > 0
     THEN "CATEGORIES:" \o Join(MapEscape(e.categories), ",") ELSE "",
     "END:VEVENT" >>

\* e: [uid, start, end, summary, location, description, categories];
\* dateNow: the value of Date.now() when the event is rendered
veventTimed(e, dateNow) ==
  Join(FilterBoolean(
         << "BEGIN:VEVENT",
            "UID:" \o e.uid,
            "DTSTAMP:" \o toUTC(dateNow),
            "DTSTART:" \o toUTC(e.start),
            "DTEND:" \o toUTC(OrT(e.end, e.start)) >> \o TextLines(e)), "\r\n")

\* e: [uid, startDate, endDateInclusive, summary, location, description, categories]
veventAllDay(e, dateNow) ==
  LET dtStart        == yyyymmdd(e.startDate)
      dtEndExclusive == yyyymmdd(addDaysISO(e.endDateInclusive, 1))
  IN  Join(FilterBoolean(
             << "BEGIN:VEVENT",
                "UID:" \o e.uid,
                "DTSTAMP:" \o toUTC(dateNow),
                "DTSTART;VALUE=DATE:" \o dtStart,
                "DTEND;VALUE=DATE:" \o dtEndExclusive >> \o TextLines(e)), "\r\n")

\* Uid that leaves the job identifier out of the hash
UidAnonymous(id) == sha1("fulcrum:") \o "@bettis"

\* crypto.createHash("sha1").update(`fulcrum:${e.id}`).digest("hex") + "@bettis"
Uid(id) == sha1("fulcrum:" \o id) \o "@bettis"

\* one element of icsBody
RenderEvent(e, allDay, dateNow) ==
  IF allDay
  THEN veventAllDay([uid |-> Uid(e.id),
                     startDate |-> OrT(e.start, e.end),
                     endDateInclusive |-> OrT(e.end, e.start),
                     summary |-> e.summary, location |-> e.location,
                     description |-> e.description, categories |-> e.categories],
                    dateNow)
  ELSE veventTimed([uid |-> Uid(e.id), start |-> e.start, end |-> e.end,
                    summary |-> e.summary, location |-> e.location,
                    description |-> e.description, categories |-> e.categories],
                   dateNow)

(* ------------------------------ caches ------------------------------- *)
\* A Map is a sequence of entries in insertion order; set() on a present key
\* replaces the value in place, delete() removes the entry.
MapHas(m, k) == \E i \in 1..Len(m) : m[i].key = k
MapGet(m, k) == m[CHOOSE i \in 1..Len(m) : m[i].key = k]
MapDelete(m, k) == SelectSeq(m, LAMBDA e : e.key # k)
MapSet(m, e) ==
  IF MapHas(m, e.key)
  THEN [i \in 1..Len(m) |-> IF m[i].key = e.key THEN e ELSE m[i]]
  ELSE Append(m, e)

\* milliseconds between two readings of Date.now() (kept in seconds)
MsBetween(later, earlier) == (later - earlier) * 1000

\* returns the cache after the read and the data: << >> for null, << arr >>
cacheGetOps(oc, jobId, dateNow) ==
  IF ~MapHas(oc, jobId) THEN [cache |-> oc, data |-> << >>]
  ELSE LET hit == MapGet(oc, jobId)
       IN  IF MsBetween(dateNow, hit.at) > OPS_CACHE_TTL_MS
           THEN [cache |-> MapDelete(oc, jobId), data |-> << >>]
           ELSE [cache |-> oc, data |-> << hit.data >>]

RECURSIVE InsertByAt(_, _)
InsertByAt(sorted, e) ==
  IF Len(sorted) = 0 THEN << e >>
  ELSE IF sorted[1].at - e.at <= 0
       THEN << sorted[1] >> \o InsertByAt(Tail(sorted), e)
       ELSE << e >> \o sorted

RECURSIVE SortByAt(_, _)
\* [...opsCache.entries()].sort((a, b) => a[1].at - b[1].at)
SortByAt(sorted, rest) ==
  IF Len(rest) = 0 THEN sorted
  ELSE SortByAt(InsertByAt(sorted, rest[1]), Tail(rest))

\* cachePutOps that drops the last entry of the sorted list on overflow
cachePutOpsDropLatest(oc, jobId, data, dateNow) ==
  LET put == MapSet(oc, [key |-> jobId, at |-> dateNow, data |-> data])
  IN  IF Len(put) > OPS_CACHE_CAP
      THEN MapDelete(put, SortByAt(<< >>, put)[Len(put)].key)
      ELSE put

cachePutOps(oc, jobId, data, dateNow) ==
  LET put == MapSet(oc, [key |-> jobId, at |-> dateNow, data |-> data])
  IN  IF Len(put) > OPS_CACHE_CAP
      THEN MapDelete(put, SortByAt(<< >>, put)[1].key)
      ELSE put

(* --------------------------- upstream client ------------------------- *)
\* raw: [kind, list]; kind "array" is a bare list, "items" / "results" /
\* "data" an envelope with the list under that key, anything else has none
unwrapItems(raw) ==
  IF raw.kind \in {"array", "items", "results", "data"} THEN raw.list ELSE << >>

(* ------------------------------ the route ---------------------------- *)
\* const prefiltered = jobs.filter(...)
\* Prefilter without its test for a missing start
PrefilterKeepsStartless(jobs, since, until) ==
  SelectSeq(jobs, LAMBDA j :
    LET start == JobStart(j)
        end   == OrT(JobEnd(j), start)
    IN  /\ ~(since # 0 /\ end < since)
        /\ ~(until # 0 /\ start > until))

Prefilter(jobs, since, until) ==
  SelectSeq(jobs, LAMBDA j :
    LET start == JobStart(j)
        end   == OrT(JobEnd(j), start)
    IN  /\ start # 0
        /\ ~(since # 0 /\ end < since)
        /\ ~(until # 0 /\ start > until))

\* a Map from job id to pair: a function on the ids that were set
PmGet(pm, id) == IF id \in DOMAIN pm THEN pm[id] ELSE << >>
PmSet(pm, id, pair) == [k \in DOMAIN pm \cup {id} |-> IF k = id THEN pair ELSE pm[k]]

\* the pair a worker stores for a job whose operation list is arr:
\* << >> is null, << [op, itm] >> a pair
PairFor(job, arr) ==
  LET pairs   == [i \in 1..Len(arr) |->
                    [op |-> arr[i].operation, itm |-> arr[i].itemToMake]]
      primary == pickPrimaryOperation(job, [i \in 1..Len(pairs) |-> pairs[i].op])
  IN  IF primary = << >> THEN << >>
      ELSE LET found == find(pairs, {i \in 1..Len(pairs) : pairs[i].op.id = primary[1].id})
           IN  IF found # << >> THEN found
               ELSE << [op |-> primary[1], itm |-> << >>] >>

\* const filteredJobs = jobs.filter(...)
FilterJobs(jobs, pm, winStart, winEnd) ==
  SelectSeq(jobs, LAMBDA j :
    LET pair  == PmGet(pm, j.id)
        op    == IF pair = << >> THEN NullOp ELSE pair[1].op
        start == OrT(OpStart(op), JobStart(j))
        end   == OrT(OrT(OpEnd(op), JobEnd(j)), start)
        s     == start
        e     == OrT(end, s)
    IN  /\ start # 0
        /\ ~(winStart # 0 /\ e < winStart)
        /\ ~(winEnd # 0 /\ s > winEnd))

\* the event of one filtered job, given its entry of primaryOpByJob
EventOfJob(j, pair) ==
  mapJobToEvent(j,
                IF pair = << >> THEN << >> ELSE << pair[1].op >>,
                IF pair = << >> THEN << >> ELSE pair[1].itm)

MapEvents(fj, pm) == [i \in 1..Len(fj) |-> EventOfJob(fj[i], PmGet(pm, fj[i].id))]

\* const events = filteredJobs.map(...)
EventsOf(jobs, pm, winStart, winEnd) == MapEvents(FilterJobs(jobs, pm, winStart, winEnd), pm)

\* const icsBody = events.map(...).join("\r\n")
IcsBody(events, allDay, dateNow) ==
  Join([i \in 1..Len(events) |-> RenderEvent(events[i], allDay, dateNow)], "\r\n")

\* const ics = [...].join("\r\n")
Ics(icsBody) ==
  Join(<< "BEGIN:VCALENDAR",
          "VERSION:2.0",
          "PRODID:-//Bettis//Fulcrum Jobs Schedule//EN",
          "CALSCALE:GREGORIAN",
          "METHOD:PUBLISH",
          "X-WR-CALNAME:Fulcrum Schedule",
          "X-WR-TIMEZONE:UTC",
          icsBody,
          "END:VCALENDAR" >>, "\r\n")

\* steps 3 and 4 of the route up to finalizeIcs: the document safeIcs
RenderIcs(jobs, pm, q, dateNow) ==
  finalizeIcs(Ics(IcsBody(EventsOf(jobs, pm, q.s, q.u), q.allday # "0", dateNow)))

EtagOf(safeIcs) == "W/\"" \o sha1(safeIcs) \o "\""

(* ------------------------- status filter ----------------------------- *)
DEFAULT_STATUSES == << "scheduled", "inProgress" >>

\* the friendly names and their API enums
STATUS_MAP ==
  { << "scheduled", "scheduled" >>, << "schedule", "scheduled" >>,
    << "in-progress", "inProgress" >>, << "in_progress", "inProgress" >>,
    << "inprogress", "inProgress" >>,
    << "pending", "pending" >>, << "awaiting", "pending" >>, << "queued", "pending" >>,
    << "complete", "complete" >>, << "completed", "complete" >>,
    << "cancelled", "cancelled" >>, << "canceled", "cancelled" >> }

\* STATUS_MAP.get(k): "" stands for undefined
StatusGet(k) ==
  IF \E e \in STATUS_MAP : e[1] = k
  THEN (CHOOSE e \in STATUS_MAP : e[1] = k)[2]
  ELSE ""

UpperCase == "ABCDEFGHIJKLMNOPQRSTUVWXYZ"
LowerCase == "abcdefghijklmnopqrstuvwxyz"

\* the lower-case form of one character
LowerChar(c) ==
  IF \E i \in 1..Len(UpperCase) : Char(UpperCase, i) = c
  THEN Char(LowerCase, CHOOSE i \in 1..Len(UpperCase) : Char(UpperCase, i) = c)
  ELSE c

RECURSIVE toLowerCase(_)
\* String.prototype.toLowerCase
toLowerCase(s) ==
  IF Len(s) = 0 THEN "" ELSE LowerChar(Char(s, 1)) \o toLowerCase(Tail(s))

\* String.prototype.trim
trim(s) ==
  LET ink == {i \in 1..Len(s) : Char(s, i) # " "}
  IN  IF ink = {} THEN ""
      ELSE SubSeq(s, Least(ink), CHOOSE i \in ink : \A k \in ink : k <= i)

RECURSIVE SplitComma(_)
\* String(s).split(",")
SplitComma(s) ==
  LET at == {i \in 1..Len(s) : Char(s, i) = ","}
  IN  IF at = {} THEN << s >>
      ELSE << SubSeq(s, 1, Least(at) - 1) >>
             \o SplitComma(SubSeq(s, Least(at) + 1, Len(s)))

\* const rawStatuses = req.query.statuses ? ... : DEFAULT_STATUSES.slice()
rawStatuses(statuses) ==
  IF statuses # ""
  THEN FilterBoolean([i \in 1..Len(SplitComma(statuses)) |-> trim(SplitComma(statuses)[i])])
  ELSE DEFAULT_STATUSES

\* const mapped = rawStatuses.map(s => STATUS_MAP.get(s.toLowerCase())).filter(Boolean)
mapped(raw) == FilterBoolean([i \in 1..Len(raw) |-> StatusGet(toLowerCase(raw[i]))])

\* const finalStatuses = mapped.length ? mapped : DEFAULT_STATUSES.slice()
finalStatuses(statuses) ==
  IF Len(mapped(rawStatuses(statuses))) > 0
  THEN mapped(rawStatuses(statuses))
  ELSE DEFAULT_STATUSES

(* ------------------------------ bounds ------------------------------- *)
\* concurrently handled /calendar.ics requests
NumReq == 2
\* seconds the clock may advance
MaxTicks == 1
\* jobs in the upstream job listing
MaxJobs == 2

(* --------------------------- upstream data --------------------------- *)
\* new Date(iso).getTime() of an ISO-8601 UTC instant, in seconds
At(y, m, d, hh, mi, ss) == MakeDay(y, m, d) * SecondsPerDay + hh * 3600 + mi * 60 + ss

T1 == At(2024, 5, 31, 9, 0, 0)
T2 == At(2024, 6, 1, 10, 0, 0)
T3 == At(2024, 6, 1, 11, 0, 0)
T4 == At(2024, 6, 2, 0, 0, 0)
\* the window bounds a subscription may pass as s and u
Since1 == At(2024, 6, 1, 0, 0, 0)
Until1 == At(2024, 6, 30, 0, 0, 0)
\* Date.now() when the process starts serving
Clock0 == At(2024, 6, 1, 10, 30, 0)

BlankJob == [id |-> "", name |-> "", number |-> << >>, status |-> "",
             salesOrderId |-> "", scheduledStartUtc |-> 0,
             originalScheduledStartUtc |-> 0, productionDueDate |-> 0,
             scheduledEndUtc |-> 0, originalScheduledEndUtc |-> 0]

\* the jobs the upstream system may list
JobPool ==
  << [BlankJob EXCEPT !.id = "J1", !.number = << 7 >>, !.status = "scheduled",
                      !.scheduledStartUtc = T2, !.scheduledEndUtc = T3],
     [BlankJob EXCEPT !.id = "J2", !.name = "Pump", !.salesOrderId = "SO-9"],
     [BlankJob EXCEPT !.id = "J3", !.name = "Valve, big", !.number = << 3 >>,
                      !.status = "inProgress", !.productionDueDate = T3] >>

\* one more job with a start, for listings with more jobs to enrich than
\* there are workers
BusyJob == [BlankJob EXCEPT !.id = "J4", !.name = "Frame", !.status = "scheduled",
                            !.scheduledStartUtc = T3, !.scheduledEndUtc = T4]

\* a job whose operation ends later than the job itself
LateOpJob == [BlankJob EXCEPT !.id = "J5", !.name = "Gear", !.status = "scheduled",
                              !.scheduledStartUtc = T2, !.scheduledEndUtc = T3]

\* jobs whose operations share an id, and have none
TwinOpsJob == [BlankJob EXCEPT !.id = "J6", !.name = "Shaft", !.status = "scheduled",
                               !.scheduledStartUtc = T2, !.scheduledEndUtc = T3]
BareOpsJob == [BlankJob EXCEPT !.id = "J7", !.name = "Axle", !.status = "scheduled",
                               !.scheduledStartUtc = T2, !.scheduledEndUtc = T3]

JobIds ==
  {JobPool[i].id : i \in 1..Len(JobPool)}
    \cup {BusyJob.id, LateOpJob.id, TwinOpsJob.id, BareOpsJob.id}

\* the operation list the upstream system holds for each job
OpsOfJob ==
  [id \in JobIds |->
     IF id = "J1"
     THEN << [operation |-> [NullOp EXCEPT !.id = "o1", !.name = "Cut",
                               !.scheduledEquipmentName = "Saw",
                               !.scheduledStartUtc = T2, !.scheduledEndUtc = T3],
              itemToMake |-> << [NullItem EXCEPT !.name = "Bracket",
                                   !.quantityToMake = << 5 >>] >>] >>
     ELSE IF id = "J2"
     THEN << [operation |-> [NullOp EXCEPT !.id = "o2", !.name = "Weld",
                               !.scheduledStartUtc = T2],
              itemToMake |-> << >>] >>
     ELSE IF id = "J3"
     THEN << [operation |-> [NullOp EXCEPT !.id = "o3", !.name = "Paint",
                               !.originalScheduledStartUtc = T1,
                               !.originalScheduledEndUtc = T2],
              itemToMake |-> << >>] >>
     ELSE IF id = "J4"
     THEN << [operation |-> [NullOp EXCEPT !.id = "o4", !.name = "Drill",
                               !.scheduledStartUtc = T3, !.scheduledEndUtc = T4],
              itemToMake |-> << >>] >>
     ELSE IF id = "J5"
     THEN << [operation |-> [NullOp EXCEPT !.id = "o5", !.name = "Mill",
                               !.scheduledStartUtc = T2, !.scheduledEndUtc = T4],
              itemToMake |-> << >>] >>
     ELSE IF id = "J6"
     THEN << [operation |-> [NullOp EXCEPT !.id = "o6", !.name = "Grind",
                               !.scheduledStartUtc = T4, !.scheduledEndUtc = T4],
              itemToMake |-> << [NullItem EXCEPT !.name = "Blank"] >>],
             [operation |-> [NullOp EXCEPT !.id = "o6", !.name = "Polish",
                               !.scheduledStartUtc = T2, !.scheduledEndUtc = T3],
              itemToMake |-> << [NullItem EXCEPT !.name = "Shaft"] >>] >>
     ELSE << [operation |-> [NullOp EXCEPT !.name = "Rough",
                               !.scheduledStartUtc = T4, !.scheduledEndUtc = T4],
              itemToMake |-> << [NullItem EXCEPT !.name = "Bar"] >>],
             [operation |-> [NullOp EXCEPT !.name = "Fine",
                               !.scheduledStartUtc = T2, !.scheduledEndUtc = T3],
              itemToMake |-> << [NullItem EXCEPT !.name = "Axle"] >>] >>]

RECURSIVE SubSeqs(_, _)
\* the subsequences of seq with exactly n elements
SubSeqs(seq, n) ==
  IF n = 0 THEN {<< >>}
  ELSE IF Len(seq) < n THEN {}
  ELSE SubSeqs(Tail(seq), n)
         \cup {<< seq[1] >> \o t : t \in SubSeqs(Tail(seq), n - 1)}

\* the job listings the upstream system may answer with
JobLists == SubSeqs(JobPool, Min(MaxJobs, Len(JobPool)))

(* ------------------------------- state ------------------------------- *)
VARIABLES
  clock,      \* Date.now(), in seconds
  cache,      \* the per-URL response cache: a Map of [key, at, body, etag]
  opsCache,   \* the operation cache: a Map of [key, at, data]
  upJobs,     \* the upstream job listing (unchanged during a behaviour)
  query,      \* the s, u and allday parameters of the subscription
  req,        \* the requests being handled
  render,     \* one job on its way through the rendering steps of the route
  picks,      \* one (job, operations) input and what the selector returned for it
  listing     \* the statuses parameter of one request and the filter sent upstream

vars == << clock, cache, opsCache, upJobs, query, req, render, picks, listing >>

Req == 1..NumReq

NoRes == [status |-> 0, body |-> "", etag |-> ""]
IdleReq == [pc |-> "idle", url |-> [s |-> 0, u |-> 0, allday |-> "", ops |-> "", key |-> ""],
            inm |-> "", now |-> 0, hit |-> FALSE, failed |-> {}, listed |-> 0,
            taken |-> << >>, jobs |-> << >>,
            idx |-> 0, wk |-> << >>, pm |-> << >>, res |-> NoRes]

\* req.url: the query string decides the cache key
Urls == {[s |-> query.s, u |-> query.u, allday |-> query.allday, ops |-> o, key |-> k] :
           o \in {"", "1"}, k \in {"", ACCESS_KEY}}

\* render and picks when the route is under study
NoRender == [job |-> BlankJob, allDay |-> TRUE, ics |-> "", safeIcs |-> "", sent |-> ""]
NoListing == [statuses |-> "", sent |-> FALSE, status |-> << >>, list |-> << >>]
NoPicks == [job |-> BlankJob, ops |-> << >>, calls |-> 0, first |-> << >>, second |-> << >>]

Init ==
  /\ clock = Clock0
  /\ cache = << >>
  /\ opsCache = << >>
  /\ upJobs \in JobLists
  /\ query \in [s : {0, Since1}, u : {0, Until1}, allday : {"", "0"}]
  /\ req = [r \in Req |-> IdleReq]
  /\ render = NoRender
  /\ picks = NoPicks
  /\ listing = NoListing

(* ------------------------------ workers ------------------------------ *)
\* st: [idx, oc, pm, wk, taken] - the shared index, the operation cache,
\* the primaryOpByJob map, the workers' positions, and the history of the
\* indices i = idx++ gave out
RECURSIVE WorkerLoopLateIncrement(_, _, _, _)
\* WorkerLoop that leaves idx alone when it suspends (const i = idx, with
\* idx++ after the await)
WorkerLoopLateIncrement(st, w, prefiltered, dateNow) ==
  IF st.idx < Len(prefiltered)
  THEN LET i   == st.idx
           job == prefiltered[i + 1]
           got == cacheGetOps(st.oc, job.id, dateNow)
       IN  IF got.data = << >>
           THEN [st EXCEPT !.oc = got.cache, !.taken = Append(@, i),
                           !.wk[w] = [st |-> "await", i |-> i]]
           ELSE WorkerLoopLateIncrement(
                  [st EXCEPT !.idx = i + 1, !.oc = got.cache, !.taken = Append(@, i),
                             !.pm = PmSet(st.pm, job.id, PairFor(job, got.data[1]))],
                  w, prefiltered, dateNow)
  ELSE [st EXCEPT !.wk[w] = [st |-> "done", i |-> 0]]

RECURSIVE WorkerLoop(_, _, _, _)
\* worker w runs from the head of its while loop to its next await (or to
\* its end); dateNow is Date.now() during this run
WorkerLoop(st, w, prefiltered, dateNow) ==
  IF st.idx < Len(prefiltered)
  THEN LET i   == st.idx
           job == prefiltered[i + 1]
           got == cacheGetOps(st.oc, job.id, dateNow)
       IN  IF got.data = << >>
           THEN [st EXCEPT !.idx = i + 1, !.oc = got.cache, !.taken = Append(@, i),
                           !.wk[w] = [st |-> "await", i |-> i]]
           ELSE WorkerLoop([st EXCEPT !.idx = i + 1, !.oc = got.cache,
                                      !.taken = Append(@, i),
                                      !.pm = PmSet(st.pm, job.id,
                                                   PairFor(job, got.data[1]))],
                           w, prefiltered, dateNow)
  ELSE [st EXCEPT !.wk[w] = [st |-> "done", i |-> 0]]

RECURSIVE StartWorkers(_, _, _, _, _)
RECURSIVE StartWorkersPerJob(_, _, _, _, _)
\* StartWorkers with one worker for each job, whatever OPS_CONCURRENCY is
StartWorkersPerJob(st, w, workers, prefiltered, dateNow) ==
  IF w > Max(Len(prefiltered), 1) THEN st
  ELSE StartWorkersPerJob(
         WorkerLoop([st EXCEPT !.wk = [v \in 1..Max(Len(prefiltered), 1) |->
                                        IF v \in DOMAIN st.wk THEN st.wk[v]
                                        ELSE [st |-> "new", i |-> 0]]],
                    w, prefiltered, dateNow),
         w + 1, workers, prefiltered, dateNow)

\* Array.from({ length: workers }, worker): each worker is called in turn and
\* runs synchronously up to its first await
StartWorkers(st, w, workers, prefiltered, dateNow) ==
  IF w > workers THEN st
  ELSE StartWorkers(WorkerLoop(st, w, prefiltered, dateNow),
                    w + 1, workers, prefiltered, dateNow)

(* ------------------------------ actions ------------------------------ *)
Tick ==
  /\ clock < Clock0 + MaxTicks
  /\ clock' = clock + 1
  /\ UNCHANGED << cache, opsCache, upJobs, query, req, render, picks, listing >>

\* cache.get(key): << >> (undefined) or the entry
CacheGet(key) == IF MapHas(cache, key) THEN << MapGet(cache, key) >> ELSE << >>

\* hit && now - hit.at < CACHE_TTL_SECONDS * 1000
Live(hit, now) ==
  hit # << >> /\ MsBetween(now, hit[1].at) < CACHE_TTL_SECONDS * 1000

\* HitResponse that never reads If-None-Match
HitResponseUnconditional(hit, inm) ==
  [status |-> 200, body |-> hit.body, etag |-> hit.etag]

\* the response to a request that found the live entry hit
HitResponse(hit, inm) ==
  IF inm # "" /\ inm = hit.etag
  THEN [status |-> 304, body |-> "", etag |-> ""]
  ELSE [status |-> 200, body |-> hit.body, etag |-> hit.etag]

\* RouteHead without the access check
RouteHeadOpen(q, url, inm, now, hit) ==
  IF Live(hit, now)
  THEN [q EXCEPT !.pc = "done", !.url = url, !.inm = inm, !.now = now, !.hit = TRUE,
                 !.res = HitResponse(hit[1], inm)]
  ELSE [q EXCEPT !.pc = "jobs", !.url = url, !.now = now, !.listed = 1]

\* the route up to its first await, given the outcome hit of cache.get
RouteHead(q, url, inm, now, hit) ==
  IF ACCESS_KEY # "" /\ url.key # ACCESS_KEY
  THEN [q EXCEPT !.pc = "done", !.url = url,
                 !.res = [status |-> 403, body |-> "Forbidden", etag |-> ""]]
  ELSE IF Live(hit, now)
  THEN [q EXCEPT !.pc = "done", !.url = url, !.inm = inm, !.now = now, !.hit = TRUE,
                 !.res = HitResponse(hit[1], inm)]
  ELSE [q EXCEPT !.pc = "jobs", !.url = url, !.now = now, !.listed = 1]

\* Receive that extends the life of the entry it serves by a second
ReceiveTouching(r, url, inm) ==
  /\ req[r].pc = "idle"
  /\ \A k \in Req : k < r => req[k].pc # "idle"
  /\ req' = [req EXCEPT ![r] = RouteHead(req[r], url, inm, clock, CacheGet(url))]
  /\ cache' = IF req'[r].hit
              THEN MapSet(cache, [MapGet(cache, url) EXCEPT !.at = clock + 1])
              ELSE cache
  /\ UNCHANGED << clock, opsCache, upJobs, query, render, picks, listing >>

\* the synchronous head of the route: access check and cache read. The
\* If-None-Match header is read on a cache hit only, and kept only then; hit
\* records that the response came from the cache.
Receive(r, url, inm) ==
  /\ req[r].pc = "idle"
  /\ \A k \in Req : k < r => req[k].pc # "idle"
  /\ req' = [req EXCEPT ![r] = RouteHead(req[r], url, inm, clock, CacheGet(url))]
  /\ UNCHANGED << clock, cache, opsCache, upJobs, query, render, picks, listing >>

\* the tail of the route: render, cache write, response; the handler's
\* locals (jobs, idx, the workers, primaryOpByJob) are dropped with it
Send(r, safeIcs, etag) ==
  /\ cache' = MapSet(cache, [key |-> req[r].url, at |-> req[r].now,
                             body |-> safeIcs, etag |-> etag])
  /\ req' = [req EXCEPT ![r] =
               [@ EXCEPT !.pc = "done", !.jobs = << >>, !.idx = 0, !.wk = << >>,
                         !.pm = << >>,
                         !.res = [status |-> 200, body |-> safeIcs, etag |-> etag]]]

Tagged(r, safeIcs) == Send(r, safeIcs, EtagOf(safeIcs))

Respond(r, jobs, pm) == Tagged(r, RenderIcs(jobs, pm, req[r].url, clock))

\* err.message of what postJson throws: `${res.status} ${await res.text()}`
\* for a non-success status, the message of fetch's error when the network fails
ListingErrors == {"503 unavailable", "fetch failed"}

\* JobsFail with one more try of the listing before the 500
JobsFailRetry(r) ==
  /\ req[r].pc = "jobs"
  /\ \E msg \in ListingErrors :
       req' = [req EXCEPT ![r] =
         IF req[r].listed < 2
         THEN [@ EXCEPT !.listed = @ + 1]
         ELSE [@ EXCEPT !.pc = "done",
                        !.res = [status |-> 500, body |-> "Error: " \o msg, etag |-> ""]]]
  /\ UNCHANGED << clock, cache, opsCache, upJobs, query, render, picks, listing >>

\* postJson(JOBS_LIST) throws: the catch block answers 500
JobsFail(r) ==
  /\ req[r].pc = "jobs"
  /\ \E msg \in ListingErrors :
       req' = [req EXCEPT ![r] =
         [@ EXCEPT !.pc = "done",
                   !.res = [status |-> 500, body |-> "Error: " \o msg, etag |-> ""]]]
  /\ UNCHANGED << clock, cache, opsCache, upJobs, query, render, picks, listing >>

\* postJson(JOBS_LIST) returns: without ops the route runs to its end; with
\* ops the workers start and the route awaits Promise.all
JobsOk(r) ==
  /\ req[r].pc = "jobs"
  /\ LET jobs == unwrapItems([kind |-> "items", list |-> upJobs])
     IN  IF req[r].url.ops = "1"
         THEN LET prefiltered == Prefilter(jobs, req[r].url.s, req[r].url.u)
                  workers == Min(OPS_CONCURRENCY, Max(Len(prefiltered), 1))
                  st == StartWorkers([idx |-> 0, oc |-> opsCache, pm |-> << >>,
                                      taken |-> << >>,
                                      wk |-> [w \in 1..workers |-> [st |-> "new", i |-> 0]]],
                                     1, workers, prefiltered, clock)
              IN  /\ req' = [req EXCEPT ![r] =
                               [@ EXCEPT !.pc = "ops", !.jobs = jobs, !.idx = st.idx,
                                         !.wk = st.wk, !.pm = st.pm,
                                         !.taken = st.taken]]
                  /\ opsCache' = st.oc
                  /\ UNCHANGED cache
         ELSE /\ Respond(r, jobs, << >>)
              /\ UNCHANGED opsCache
  /\ UNCHANGED << clock, upJobs, query, render, picks, listing >>

\* the job worker w of request r is fetching operations for
AwaitedJob(r, w) ==
  Prefilter(req[r].jobs, req[r].url.s, req[r].url.u)[req[r].wk[w].i + 1]

\* worker w resumes after its await with arr (<< >>: null, << a >>: the
\* array a), the operation cache being oc, and runs to its next await
Resume(r, w, job, arr, oc) ==
  LET st == WorkerLoop([idx |-> req[r].idx, oc |-> oc, wk |-> req[r].wk,
                        taken |-> req[r].taken,
                        pm |-> PmSet(req[r].pm, job.id,
                                     IF arr = << >> THEN << >>
                                     ELSE PairFor(job, arr[1]))],
                       w, Prefilter(req[r].jobs, req[r].url.s, req[r].url.u), clock)
  IN  /\ req' = [req EXCEPT ![r] =
                   [@ EXCEPT !.idx = st.idx, !.wk = st.wk, !.pm = st.pm,
                             !.taken = st.taken,
                             !.failed = IF arr = << >> THEN @ \cup {job.id} ELSE @]]
      /\ opsCache' = st.oc

Awaiting(r, w) ==
  /\ req[r].pc = "ops"
  /\ w \in 1..Len(req[r].wk)
  /\ req[r].wk[w].st = "await"

\* the array a worker gets for a job: unwrapItems(opsResp)
OpsArray(job) == unwrapItems([kind |-> "array", list |-> OpsOfJob[job.id]])

\* worker w's postJson(JOB_OPS_LIST(job.id)) returns
OpsOk(r, w) ==
  /\ Awaiting(r, w)
  /\ Resume(r, w, AwaitedJob(r, w), << OpsArray(AwaitedJob(r, w)) >>,
            cachePutOps(opsCache, AwaitedJob(r, w).id, OpsArray(AwaitedJob(r, w)), clock))
  /\ UNCHANGED << clock, cache, upJobs, query, render, picks, listing >>

\* OpsFail without the worker's catch: the rejection reaches the route's
\* catch, which answers 500
OpsFailUncaught(r, w) ==
  /\ Awaiting(r, w)
  /\ req' = [req EXCEPT ![r] =
       [@ EXCEPT !.pc = "done", !.failed = @ \cup {AwaitedJob(r, w).id},
                 !.jobs = << >>, !.idx = 0, !.wk = << >>, !.pm = << >>,
                 !.res = [status |-> 500, body |-> "Error: 503 unavailable", etag |-> ""]]]
  /\ UNCHANGED << clock, cache, opsCache, upJobs, query, render, picks, listing >>

\* worker w's postJson(JOB_OPS_LIST(job.id)) throws: catch { arr = null }.
\* failed is a history variable: the jobs whose operation listing failed.
OpsFail(r, w) ==
  /\ Awaiting(r, w)
  /\ Resume(r, w, AwaitedJob(r, w), << >>, opsCache)
  /\ UNCHANGED << clock, cache, upJobs, query, render, picks, listing >>

\* Finish in a process that a pending upstream call of another request
\* blocks: the route's continuation is parked and never taken up again
FinishBlocking(r) ==
  /\ req[r].pc = "ops"
  /\ \A w \in 1..Len(req[r].wk) : req[r].wk[w].st = "done"
  /\ IF \E k \in Req \ {r} : req[k].pc \in {"jobs", "ops"}
     THEN /\ req' = [req EXCEPT ![r].pc = "parked"]
          /\ cache' = cache
     ELSE Respond(r, req[r].jobs, req[r].pm)
  /\ UNCHANGED << clock, opsCache, upJobs, query, render, picks, listing >>

\* Promise.all(workers) resolves: the route runs to its end
Finish(r) ==
  /\ req[r].pc = "ops"
  /\ \A w \in 1..Len(req[r].wk) : req[r].wk[w].st = "done"
  /\ Respond(r, req[r].jobs, req[r].pm)
  /\ UNCHANGED << clock, opsCache, upJobs, query, render, picks, listing >>

\* the If-None-Match headers a client may send: none, a tag it was given, a stale tag
Inms == {"", "W/\"stale\""} \cup {cache[i].etag : i \in 1..Len(cache)}

Next ==
  \/ Tick
  \/ \E r \in Req, url \in Urls, inm \in Inms : Receive(r, url, inm)
  \/ \E r \in Req : JobsFail(r)
  \/ \E r \in Req : JobsOk(r)
  \/ \E r \in Req, w \in 1..OPS_CONCURRENCY : OpsOk(r, w)
  \/ \E r \in Req, w \in 1..OPS_CONCURRENCY : OpsFail(r, w)
  \/ \E r \in Req : Finish(r)

Spec == Init /\ [][Next]_vars

(* ======================= properties of the route ===================== *)
\* sub occurs in s
Contains(s, sub) ==
  \E i \in 1..(Len(s) - Len(sub) + 1) :
    Char(s, i) = Char(sub, 1) /\ SubSeq(s, i, i + Len(sub) - 1) = sub

Done200(r) == req[r].pc = "done" /\ req[r].res.status = 200

\* the upstream jobs without scheduledStartUtc, originalScheduledStartUtc
\* and productionDueDate
Startless == {i \in 1..Len(upJobs) : JobStart(upJobs[i]) = 0}

\* the feed of request r holds a VEVENT for the job with this id
HasEventFor(r, id) == Contains(req[r].res.body, "UID:" \o Uid(id) \o "\r\n")

\* C1: two 200 responses to the same URL, received within one cache
\* time-to-live of each other, carry the same body and the same ETag.
C1_SameUrlSameBody ==
  \A r1, r2 \in Req :
    (/\ Done200(r1) /\ Done200(r2)
     /\ req[r1].url = req[r2].url
     /\ MsBetween(req[r1].now, req[r2].now) < CACHE_TTL_SECONDS * 1000
     /\ MsBetween(req[r2].now, req[r1].now) < CACHE_TTL_SECONDS * 1000)
    => /\ req[r1].res.body = req[r2].res.body
       /\ req[r1].res.etag = req[r2].res.etag

\* C2: a job with none of the three start timestamps has no VEVENT in any
\* feed that is sent, whatever ops, allday, s and u are and however the
\* enrichment went.
C2_StartlessExcluded ==
  \A r \in Req : Done200(r) =>
    \A i \in Startless : ~HasEventFor(r, upJobs[i].id)

\* C2 witness: an enriched feed was rendered while the listing held a job
\* without start whose operations carry start timestamps.
C2_Witness ==
  \E r \in Req :
    /\ Done200(r) /\ ~req[r].hit /\ req[r].url.ops = "1"
    /\ \E i \in Startless :
         \E k \in 1..Len(OpsOfJob[upJobs[i].id]) :
           OpStart(OpsOfJob[upJobs[i].id][k].operation) # 0
    /\ \E i \in 1..Len(upJobs) : HasEventFor(r, upJobs[i].id)

\* the requests whose workers have all ended and that await Promise.all
Enriched(r) ==
  /\ req[r].pc = "ops"
  /\ \A w \in 1..Len(req[r].wk) : req[r].wk[w].st = "done"

\* C3: every event that is rendered has end >= start.
C3_EndNotBeforeStart ==
  \A r \in Req : Enriched(r) =>
    \A i \in 1..Len(EventsOf(req[r].jobs, req[r].pm, req[r].url.s, req[r].url.u)) :
      EventsOf(req[r].jobs, req[r].pm, req[r].url.s, req[r].url.u)[i].end
        >= EventsOf(req[r].jobs, req[r].pm, req[r].url.s, req[r].url.u)[i].start

\* C4: a request that finds a live cache entry for its URL is answered 304
\* with an empty body when its If-None-Match equals the entry's ETag, and
\* 200 with the cached body and the stored ETag otherwise.
C4_ConditionalGet ==
  [][\A r \in Req :
       (/\ req[r].pc = "idle" /\ req'[r].pc # "idle"
        /\ req'[r].res.status # 403
        /\ Live(CacheGet(req'[r].url), clock))
       => IF req'[r].inm # "" /\ req'[r].inm = MapGet(cache, req'[r].url).etag
          THEN req'[r].res = [status |-> 304, body |-> "", etag |-> ""]
          ELSE req'[r].res = [status |-> 200,
                              body |-> MapGet(cache, req'[r].url).body,
                              etag |-> MapGet(cache, req'[r].url).etag]]_vars

\* C4 witness: a request whose If-None-Match equals the ETag of the live
\* entry for its URL was answered 304 from the cache.
C4_Witness ==
  \E r \in Req :
    /\ req[r].hit /\ req[r].res.status = 304
    /\ MapHas(cache, req[r].url) /\ req[r].inm = MapGet(cache, req[r].url).etag

\* the VEVENT of job j rendered from the pair (<< >>: none) at some time
\* up to now
EventShown(r, j, pair) ==
  \E t \in Clock0..clock :
    Contains(req[r].res.body,
             foldLines(RenderEvent(EventOfJob(j, pair), req[r].url.allday # "0", t))
               \o "\r\n")

\* C5: with ops=1, when the operation listing of a job fails the request
\* is still answered 200, the job is in the feed mapped from its job-level
\* fields only, and every other job is mapped from its own operations.
C5_FailureIsolated ==
  \A r \in Req :
    (req[r].pc = "done" /\ req[r].failed # {}) =>
      /\ req[r].res.status = 200
      /\ \A i \in 1..Len(Prefilter(upJobs, req[r].url.s, req[r].url.u)) :
           EventShown(r, Prefilter(upJobs, req[r].url.s, req[r].url.u)[i],
             IF Prefilter(upJobs, req[r].url.s, req[r].url.u)[i].id \in req[r].failed
             THEN << >>
             ELSE PairFor(Prefilter(upJobs, req[r].url.s, req[r].url.u)[i],
                          OpsArray(Prefilter(upJobs, req[r].url.s, req[r].url.u)[i])))

\* C5 witness: a request was answered after one job's operation listing
\* failed and another job's succeeded.
C5_Witness ==
  \E r \in Req :
    /\ Done200(r) /\ req[r].failed # {}
    /\ \E i \in 1..Len(Prefilter(upJobs, req[r].url.s, req[r].url.u)) :
         /\ Prefilter(upJobs, req[r].url.s, req[r].url.u)[i].id \notin req[r].failed
         /\ HasEventFor(r, Prefilter(upJobs, req[r].url.s, req[r].url.u)[i].id)
    /\ \E id \in req[r].failed : HasEventFor(r, id)

\* a job with number n, without name
Numbered == {i \in 1..Len(upJobs) : upJobs[i].name = "" /\ Len(upJobs[i].number) > 0}

\* C6: a job that has a number n, no name and no primary operation is
\* rendered with the summary "Job #n" exactly.
C6_JobNumberSummary ==
  \A r \in Req :
    (Done200(r) /\ ~req[r].hit /\ req[r].url.ops # "1") =>
      \A i \in Numbered :
        HasEventFor(r, upJobs[i].id) =>
          Contains(req[r].res.body,
                   "\r\nSUMMARY:Job #" \o ToString(upJobs[i].number[1]) \o "\r\n")

\* request r is received in this step
Received(r) == req[r].pc = "idle" /\ req'[r].pc # "idle"

\* C11: with an access key configured, a request whose key parameter is
\* missing or wrong is answered 403 without a calendar body in every cache
\* state, issues no upstream call and changes neither cache.
C11_AccessDenied ==
  [][\A r \in Req :
       /\ (Received(r) /\ req'[r].url.key # ACCESS_KEY) =>
            /\ req'[r].pc = "done"
            /\ req'[r].res.status = 403
            /\ ~Contains(req'[r].res.body, "BEGIN:VCALENDAR")
            /\ cache' = cache /\ opsCache' = opsCache
       /\ (req[r].pc = "done" /\ req[r].res.status = 403) => req'[r] = req[r]]_vars

\* C11 witness: a request with a wrong key was answered 403 while the
\* response cache held a live entry.
C11_Witness ==
  \E r \in Req :
    /\ req[r].pc = "done" /\ req[r].res.status = 403 /\ req[r].url.key # ACCESS_KEY
    /\ \E i \in 1..Len(cache) : Live(<< cache[i] >>, clock)

\* C12: when the job-listing call fails the request is answered 500 with
\* the upstream status and body in its text, the listing was called once,
\* no operation listing is called, and the response cache is unchanged.
C12_ListingFailure ==
  [][\A r \in Req :
       /\ (req[r].pc = "jobs" /\ req'[r].res.status = 500) =>
            /\ req'[r].pc = "done"
            /\ req'[r].res.body \in {"Error: " \o msg : msg \in ListingErrors}
            /\ req'[r].listed = 1
            /\ req'[r].wk = << >> /\ req'[r].failed = {}
            /\ cache' = cache /\ opsCache' = opsCache
       /\ (req[r].pc = "done" /\ req[r].res.status = 500) => req'[r] = req[r]]_vars

\* C12 witness: a request whose job listing failed was answered 500 while
\* the response cache held an entry for its URL.
C12_Witness ==
  \E r \in Req :
    /\ req[r].pc = "done" /\ req[r].res.status = 500
    /\ MapHas(cache, req[r].url)

\* request r has missed the response cache for its URL and has not yet
\* written it
MissedUrl(r) == req[r].pc \in {"jobs", "ops"}

\* the job identifiers that workers of request r have missed in the
\* operation cache and not yet put
MissedJobs(r) ==
  IF req[r].pc = "ops"
  THEN {Prefilter(req[r].jobs, req[r].url.s, req[r].url.u)[req[r].wk[w].i + 1].id :
          w \in {v \in 1..Len(req[r].wk) : req[r].wk[v].st = "await"}}
  ELSE {}

\* no two handlers are between check and write on one URL
OneFetchPerUrl ==
  \A r1, r2 \in Req :
    (r1 # r2 /\ MissedUrl(r1) /\ MissedUrl(r2)) => req[r1].url # req[r2].url

\* no two handlers are between check and write on one job identifier
OneFetchPerJob ==
  \A r1, r2 \in Req : r1 # r2 => MissedJobs(r1) \cap MissedJobs(r2) = {}

\* C17: between a handler's miss check for a key of the response cache or
\* of the operation cache and its write for that key no other request
\* reads or writes the key: at most one upstream fetch per key and miss.
C17_CheckThenWriteAtomic == OneFetchPerUrl /\ OneFetchPerJob

(* ------------- the enrichment of one request, step by step ----------- *)
\* listings with more jobs that have a start than OPS_CONCURRENCY workers
BusyLists == SubSeqs(JobPool \o << BusyJob >>, MaxJobs + 1)

\* a request for the feed with operations has been received and waits for
\* the job listing
EnrichInit ==
  /\ clock = Clock0
  /\ cache = << >>
  /\ opsCache = << >>
  /\ upJobs \in BusyLists
  /\ query \in [s : {0, Since1}, u : {0, Until1}, allday : {"", "0"}]
  /\ req = [r \in Req |->
              IF r = 1
              THEN RouteHead(IdleReq,
                             [s |-> query.s, u |-> query.u, allday |-> query.allday,
                              ops |-> "1", key |-> ACCESS_KEY],
                             "", Clock0, << >>)
              ELSE IdleReq]
  /\ render = NoRender
  /\ picks = NoPicks
  /\ listing = NoListing

EnrichNext ==
  \/ Tick
  \/ \E r \in Req : JobsFail(r)
  \/ \E r \in Req : JobsOk(r)
  \/ \E r \in Req, w \in 1..OPS_CONCURRENCY : OpsOk(r, w)
  \/ \E r \in Req, w \in 1..OPS_CONCURRENCY : OpsFail(r, w)
  \/ \E r \in Req : Finish(r)

SpecEnrich == EnrichInit /\ [][EnrichNext]_vars

\* the indices of prefiltered that workers of request r are suspended on
InFlight(r) == {w \in 1..Len(req[r].wk) : req[r].wk[w].st = "await"}

\* in request r, enriching the list pre: each index was given out once, to
\* a worker that is still suspended on it or has set its job's entry of
\* primaryOpByJob; at the end every job was given out and has its entry
TakenOnce(r, pre) ==
  /\ \A a, b \in 1..Len(req[r].taken) : a # b => req[r].taken[a] # req[r].taken[b]
  /\ \A a \in 1..Len(req[r].taken) :
       /\ req[r].taken[a] \in 0..(Len(pre) - 1)
       /\ (\E w \in InFlight(r) : req[r].wk[w].i = req[r].taken[a])
            <=> pre[req[r].taken[a] + 1].id \notin DOMAIN req[r].pm
  /\ \A v, w \in InFlight(r) : v # w => req[r].wk[v].i # req[r].wk[w].i
  /\ \A w \in InFlight(r) : \E a \in 1..Len(req[r].taken) : req[r].taken[a] = req[r].wk[w].i
  /\ Enriched(r) =>
       /\ {req[r].taken[a] : a \in 1..Len(req[r].taken)} = 0..(Len(pre) - 1)
       /\ DOMAIN req[r].pm = {pre[k].id : k \in 1..Len(pre)}

\* C15: while a request is enriched, under every interleaving of its
\* workers, each prefiltered job is taken from the shared index by exactly
\* one worker, none is skipped, and at the end primaryOpByJob has an entry
\* for every prefiltered job.
C15_EachJobOnce ==
  \A r \in Req :
    req[r].pc = "ops" => TakenOnce(r, Prefilter(req[r].jobs, req[r].url.s, req[r].url.u))

\* C15 witness: OPS_CONCURRENCY workers have enriched a list of more jobs,
\* one of which failed, and it is complete.
C15_Witness ==
  \E r \in Req :
    /\ Enriched(r) /\ Len(req[r].wk) = OPS_CONCURRENCY
    /\ Len(req[r].taken) > OPS_CONCURRENCY
    /\ req[r].failed # {}

\* C16: while a request is enriched, the operation-listing calls in flight
\* for it are at most OPS_CONCURRENCY and at most the prefiltered jobs.
C16_BoundedFanOut ==
  \A r \in Req :
    req[r].pc = "ops" =>
      /\ Cardinality(InFlight(r)) <= OPS_CONCURRENCY
      /\ Cardinality(InFlight(r))
           <= Len(Prefilter(req[r].jobs, req[r].url.s, req[r].url.u))

\* C16 witness: OPS_CONCURRENCY calls of one request are in flight while
\* a further job waits to be taken.
C16_Witness ==
  \E r \in Req :
    /\ req[r].pc = "ops" /\ Cardinality(InFlight(r)) = OPS_CONCURRENCY
    /\ req[r].idx < Len(Prefilter(req[r].jobs, req[r].url.s, req[r].url.u))


(* ----------------------- operation cache capacity -------------------- *)
Keys(m) == {m[i].key : i \in 1..Len(m)}

\* after is what a put of jobId at dateNow may leave of before: the key is
\* there; nothing else changed unless the put went above OPS_CACHE_CAP, and
\* then one other entry is gone, none of the entries being older than it
PutKeeps(before, after, jobId, dateNow) ==
  /\ MapHas(after, jobId)
  /\ MapGet(after, jobId).at = dateNow
  /\ IF ~MapHas(before, jobId) /\ Len(before) + 1 > OPS_CACHE_CAP
     THEN \E i \in 1..Len(before) :
            /\ \A j \in 1..Len(before) : before[i].at <= before[j].at
            /\ before[i].at <= dateNow
            /\ after = Append(MapDelete(before, before[i].key),
                              MapGet(after, jobId))
     ELSE /\ Keys(after) = Keys(before) \cup {jobId}
          /\ \A k \in Keys(before) \ {jobId} : MapGet(after, k) = MapGet(before, k)

PutStep ==
  \A r \in Req, w \in 1..OPS_CONCURRENCY :
    OpsOk(r, w) => PutKeeps(opsCache, opsCache', AwaitedJob(r, w).id, clock)

\* C18: the operation cache never holds more than OPS_CACHE_CAP entries,
\* and a cachePutOps that goes above it removes exactly one entry, one with
\* the earliest timestamp and never the entry just inserted.
C18_OpsCacheCap ==
  [][Len(opsCache') <= OPS_CACHE_CAP /\ PutStep]_vars

\* C18 witness: more operation lists than OPS_CACHE_CAP were put for a
\* request, the cache is full and the first of them is no longer in it.
C18_Witness ==
  \E r \in Req :
    /\ Enriched(r)
    /\ Cardinality(DOMAIN req[r].pm \ req[r].failed) > OPS_CACHE_CAP
    /\ Len(opsCache) = OPS_CACHE_CAP
    /\ \E k \in DOMAIN req[r].pm \ req[r].failed : ~MapHas(opsCache, k)


(* ------------------------- expiry of cache entries ------------------- *)
\* seconds the clock may advance while entries age
MaxAge == 2

TickOn ==
  /\ clock < Clock0 + MaxAge
  /\ clock' = clock + 1
  /\ UNCHANGED << cache, opsCache, upJobs, query, req, render, picks, listing >>

\* one subscription, fetched again and again while the clock advances
ExpiryInit ==
  /\ clock = Clock0
  /\ cache = << >>
  /\ opsCache = << >>
  /\ upJobs \in JobLists
  /\ query = [s |-> Since1, u |-> 0, allday |-> ""]
  /\ req = [r \in Req |-> IdleReq]
  /\ render = NoRender
  /\ picks = NoPicks
  /\ listing = NoListing

ExpiryNext ==
  \/ TickOn
  \/ \E r \in Req, url \in Urls, inm \in Inms : Receive(r, url, inm)
  \/ \E r \in Req : JobsFail(r)
  \/ \E r \in Req : JobsOk(r)
  \/ \E r \in Req, w \in 1..OPS_CONCURRENCY : OpsOk(r, w)
  \/ \E r \in Req, w \in 1..OPS_CONCURRENCY : OpsFail(r, w)
  \/ \E r \in Req : Finish(r)

SpecExpiry == ExpiryInit /\ [][ExpiryNext]_vars

\* request r is received, passes the access check and reads the response cache
ReadsResponse(r) == Received(r) /\ req'[r].res.status # 403

ResponseAge(r) == MsBetween(clock, MapGet(cache, req'[r].url).at)

\* the read of an entry older than CACHE_TTL_SECONDS does not serve it
ResponseExpiredNotServed ==
  \A r \in Req :
    (ReadsResponse(r) /\ MapHas(cache, req'[r].url)
       /\ ResponseAge(r) > CACHE_TTL_SECONDS * 1000)
    => (req'[r].pc = "jobs" /\ ~req'[r].hit)

\* the read of an entry older than CACHE_TTL_SECONDS removes it
ResponseExpiredRemoved ==
  \A r \in Req :
    (ReadsResponse(r) /\ MapHas(cache, req'[r].url)
       /\ ResponseAge(r) > CACHE_TTL_SECONDS * 1000)
    => ~MapHas(cache', req'[r].url)

\* the read of an entry younger than CACHE_TTL_SECONDS answers with it
ResponseYoungServed ==
  \A r \in Req :
    (ReadsResponse(r) /\ MapHas(cache, req'[r].url)
       /\ ResponseAge(r) < CACHE_TTL_SECONDS * 1000)
    => /\ req'[r].pc = "done" /\ req'[r].hit
       /\ req'[r].res = HitResponse(MapGet(cache, req'[r].url), req'[r].inm)
       /\ cache' = cache

\* the jobs whose operations the workers of request r look up in this step
LookedUp(r) ==
  {Prefilter(req'[r].jobs, req'[r].url.s, req'[r].url.u)[req'[r].taken[a] + 1] :
     a \in (Len(req[r].taken) + 1)..Len(req'[r].taken)}

\* cacheGetOps of an entry older than OPS_CACHE_TTL_MS returns null (the
\* worker goes on to fetch) and deletes the entry
OpsExpiredRemoved ==
  \A r \in Req : \A job \in LookedUp(r) :
    (MapHas(opsCache, job.id)
       /\ MsBetween(clock, MapGet(opsCache, job.id).at) > OPS_CACHE_TTL_MS)
    => /\ ~MapHas(opsCache', job.id)
       /\ job.id \notin DOMAIN req'[r].pm
       /\ \E w \in 1..Len(req'[r].wk) :
            req'[r].wk[w].st = "await" /\ AwaitedJob(r, w)' = job

\* cacheGetOps of an entry younger than OPS_CACHE_TTL_MS returns its data
\* and leaves it as it is
OpsYoungReturned ==
  \A r \in Req : \A job \in LookedUp(r) :
    (MapHas(opsCache, job.id)
       /\ MsBetween(clock, MapGet(opsCache, job.id).at) < OPS_CACHE_TTL_MS)
    => /\ MapHas(opsCache', job.id)
       /\ MapGet(opsCache', job.id) = MapGet(opsCache, job.id)
       /\ job.id \in DOMAIN req'[r].pm
       /\ req'[r].pm[job.id] = PairFor(job, MapGet(opsCache, job.id).data)

\* C19: in the operation cache and in the response cache a read never
\* returns or serves an entry older than its time-to-live and removes it
\* from the map, and returns an entry younger than that unchanged.
C19_ExpiredEvictedOnRead ==
  [][/\ ResponseExpiredNotServed /\ ResponseExpiredRemoved /\ ResponseYoungServed
     /\ OpsExpiredRemoved /\ OpsYoungReturned]_vars

\* what holds of the reads: all of C19 but the removal from the response cache
C19_ReadsButRemoval ==
  [][/\ ResponseExpiredNotServed /\ ResponseYoungServed
     /\ OpsExpiredRemoved /\ OpsYoungReturned]_vars

\* the removal from the response cache alone
C19_ResponseRemoval == [][ResponseExpiredRemoved]_vars


(* --------------------------- start of an event ----------------------- *)
\* the operation of job j's entry of primaryOpByJob, NullOp without one
OpOf(pm, j) == IF PmGet(pm, j.id) = << >> THEN NullOp ELSE PmGet(pm, j.id)[1].op

\* the events of the filtered jobs fj start with the operation's effective
\* start when it has one, else with the job's
StartsOperationFirst(fj, pm) ==
  \A i \in 1..Len(fj) :
    EventOfJob(fj[i], PmGet(pm, fj[i].id)).start =
      IF OpStart(OpOf(pm, fj[i])) # 0 THEN OpStart(OpOf(pm, fj[i])) ELSE JobStart(fj[i])

\* ... with the job's effective start when it has one, else with the operation's
StartsJobFirst(fj, pm) ==
  \A i \in 1..Len(fj) :
    EventOfJob(fj[i], PmGet(pm, fj[i].id)).start =
      IF JobStart(fj[i]) # 0 THEN JobStart(fj[i]) ELSE OpStart(OpOf(pm, fj[i]))

\* C20: the start of every event is the effective start of the job's
\* primary operation when it has one, even if the job has a start too, and
\* the job's effective start only otherwise.
C20_StartOperationFirst ==
  \A r \in Req : Enriched(r) =>
    StartsOperationFirst(FilterJobs(req[r].jobs, req[r].pm, req[r].url.s, req[r].url.u),
                         req[r].pm)

\* what the route does: the job's effective start comes first
C20_StartJobFirst ==
  \A r \in Req : Enriched(r) =>
    StartsJobFirst(FilterJobs(req[r].jobs, req[r].pm, req[r].url.s, req[r].url.u),
                   req[r].pm)

\* a request whose events include one of a job with a start and a primary
\* operation with another start
C20_BothStarts ==
  \E r \in Req :
    /\ Enriched(r)
    /\ \E i \in 1..Len(req[r].jobs) :
         /\ JobStart(req[r].jobs[i]) # 0
         /\ OpStart(OpOf(req[r].pm, req[r].jobs[i])) # 0
         /\ OpStart(OpOf(req[r].pm, req[r].jobs[i])) # JobStart(req[r].jobs[i])


(* ---------------------------- end of an event ------------------------ *)
\* listings of a job without an end and of one whose operation ends later
EndLists ==
  SubSeqs(<< JobPool[3], LateOpJob >>, 1) \cup SubSeqs(<< JobPool[3], LateOpJob >>, 2)

\* a request for the feed with operations, timed or all-day, has been
\* received and waits for the job listing
EndInit ==
  /\ clock = Clock0
  /\ cache = << >>
  /\ opsCache = << >>
  /\ upJobs \in EndLists
  /\ query \in [s : {0, Since1}, u : {0, Until1}, allday : {"", "0"}]
  /\ req = [r \in Req |->
              IF r = 1
              THEN RouteHead(IdleReq,
                             [s |-> query.s, u |-> query.u, allday |-> query.allday,
                              ops |-> "1", key |-> ACCESS_KEY],
                             "", Clock0, << >>)
              ELSE IdleReq]
  /\ render = NoRender
  /\ picks = NoPicks
  /\ listing = NoListing

SpecEnd == EndInit /\ [][EnrichNext]_vars

\* the end the event of job j with primary operation op is to have: the
\* operation's effective end, else the job's, else 0
EndOperationFirst(j, op) == OrT(OpEnd(op), JobEnd(j))

\* the DTEND line of event e is the instant t (timed) or the day of t (all-day)
EndsAt(e, allDay, t) ==
  Contains(RenderEvent(e, allDay, clock) \o "\r\n",
           IF allDay THEN "\r\nDTEND;VALUE=DATE:" \o yyyymmdd(t) \o "\r\n"
           ELSE "\r\nDTEND:" \o toUTC(t) \o "\r\n")

\* the event e of job j with the operation op ends with the operation
\* first, then the job
EndKnownOperationFirst(e, j, op) ==
  EndOperationFirst(j, op) # 0 => e.end = EndOperationFirst(j, op)

\* ... with the job first, then the operation
EndKnownJobFirst(e, j, op) ==
  (JobEnd(j) # 0 \/ OpEnd(op) # 0) => e.end = OrT(JobEnd(j), OpEnd(op))

\* without an end an all-day event ends a day after its start (DTEND is exclusive)
EndDefaultAllDay(e, j, op, allDay) ==
  (EndOperationFirst(j, op) = 0 /\ allDay) => EndsAt(e, TRUE, addDaysISO(e.start, 1))

\* without an end a timed event ends 30 minutes after its start
EndDefaultTimed(e, j, op, allDay) ==
  (EndOperationFirst(j, op) = 0 /\ ~allDay) => EndsAt(e, FALSE, e.start + 30 * 60)

\* ... ends at its start
EndDefaultTimedAtStart(e, j, op, allDay) ==
  (EndOperationFirst(j, op) = 0 /\ ~allDay) => (e.end = e.start /\ EndsAt(e, FALSE, e.start))

\* the jobs of request r that get an event
Shown(r) == FilterJobs(req[r].jobs, req[r].pm, req[r].url.s, req[r].url.u)

\* C21: the end of every event is the primary operation's effective end
\* if present, else the job's effective end; with neither, the event ends
\* 30 minutes after its start in timed mode and a day after it in all-day mode.
C21_EndOperationFirst ==
  \A r \in Req : Enriched(r) =>
    \A i \in 1..Len(Shown(r)) :
      /\ EndKnownOperationFirst(EventOfJob(Shown(r)[i], PmGet(req[r].pm, Shown(r)[i].id)),
                                Shown(r)[i], OpOf(req[r].pm, Shown(r)[i]))
      /\ EndDefaultTimed(EventOfJob(Shown(r)[i], PmGet(req[r].pm, Shown(r)[i].id)),
                         Shown(r)[i], OpOf(req[r].pm, Shown(r)[i]), req[r].url.allday # "0")
      /\ EndDefaultAllDay(EventOfJob(Shown(r)[i], PmGet(req[r].pm, Shown(r)[i].id)),
                          Shown(r)[i], OpOf(req[r].pm, Shown(r)[i]), req[r].url.allday # "0")

\* the first part of C21 alone: operation first, then job
C21_KnownEndOperationFirst ==
  \A r \in Req : Enriched(r) =>
    \A i \in 1..Len(Shown(r)) :
      EndKnownOperationFirst(EventOfJob(Shown(r)[i], PmGet(req[r].pm, Shown(r)[i].id)),
                             Shown(r)[i], OpOf(req[r].pm, Shown(r)[i]))

\* the timed default of C21 alone
C21_TimedDefault ==
  \A r \in Req : Enriched(r) =>
    \A i \in 1..Len(Shown(r)) :
      EndDefaultTimed(EventOfJob(Shown(r)[i], PmGet(req[r].pm, Shown(r)[i].id)),
                      Shown(r)[i], OpOf(req[r].pm, Shown(r)[i]), req[r].url.allday # "0")

\* what the route does: job first, then operation, then the start itself;
\* the all-day default of C21 holds
C21_EndJobFirst ==
  \A r \in Req : Enriched(r) =>
    \A i \in 1..Len(Shown(r)) :
      /\ EndKnownJobFirst(EventOfJob(Shown(r)[i], PmGet(req[r].pm, Shown(r)[i].id)),
                          Shown(r)[i], OpOf(req[r].pm, Shown(r)[i]))
      /\ EndDefaultTimedAtStart(EventOfJob(Shown(r)[i], PmGet(req[r].pm, Shown(r)[i].id)),
                                Shown(r)[i], OpOf(req[r].pm, Shown(r)[i]),
                                req[r].url.allday # "0")
      /\ EndDefaultAllDay(EventOfJob(Shown(r)[i], PmGet(req[r].pm, Shown(r)[i].id)),
                          Shown(r)[i], OpOf(req[r].pm, Shown(r)[i]), req[r].url.allday # "0")

\* a timed feed is being built with an event of a job that has no end and
\* no operation with one
C21_Cases ==
  /\ \E r \in Req : Enriched(r) /\ req[r].url.allday = "0"
       /\ \E i \in 1..Len(Shown(r)) :
            EndOperationFirst(Shown(r)[i], OpOf(req[r].pm, Shown(r)[i])) = 0


(* ------------------------ a hung upstream call ----------------------- *)
\* the requests received after the first one
Others == Req \ {1}

\* every upstream call of request r returns or fails, and the event loop
\* then runs r on; nothing is assumed of the calls of the first request
\* (weak fairness of the three steps, written out as
\* []<>(not enabled) \/ []<>(step taken): each step is enabled exactly when
\* its guard holds and always changes the state)
Returns(r) ==
  /\ []<>(req[r].pc # "jobs") \/ []<><<JobsOk(r) \/ JobsFail(r)>>_vars
  /\ \A w \in 1..OPS_CONCURRENCY :
       []<>(~Awaiting(r, w)) \/ []<><<OpsOk(r, w) \/ OpsFail(r, w)>>_vars
  /\ []<>(~Enriched(r)) \/ []<><<Finish(r)>>_vars

SpecHung == ExpiryInit /\ [][Next]_vars /\ \A r \in Others : Returns(r)

InHand(r) == req[r].pc \in {"jobs", "ops"}
Answered(r) == req[r].pc = "done" /\ req[r].res.status \in {200, 304, 403, 500}

\* C23: whether or not the upstream calls of the first request ever
\* return, every other request whose own upstream calls return is answered,
\* and its answer is never followed by another.
C23_HungCallStallsOne ==
  /\ \A r \in Others : InHand(r) ~> Answered(r)
  /\ [][\A r \in Others : Answered(r) => req'[r] = req[r]]_vars

\* C23 witness: a request has been answered from the upstream system while
\* the first request still waits for its job listing.
C23_Witness ==
  \E r \in Others :
    /\ req[1].pc = "jobs"
    /\ Answered(r) /\ req[r].res.status = 200 /\ ~req[r].hit
    /\ req[r].url.ops = "1"


(* -------------------- order of response cache writes ----------------- *)
\* C24: the timestamp of the response cache entry of a URL never
\* decreases: no write replaces an entry by one created earlier.
C24_CacheStampMonotonic ==
  [][\A i \in 1..Len(cache) :
       MapHas(cache', cache[i].key) => MapGet(cache', cache[i].key).at >= cache[i].at]_vars

\* two requests for one URL were answered from the upstream system, the
\* one received first being the one answered last
C24_Overtaken ==
  \E r1, r2 \in Req :
    /\ Done200(r1) /\ Done200(r2) /\ ~req[r1].hit /\ ~req[r2].hit
    /\ req[r1].url = req[r2].url /\ req[r1].now < req[r2].now
    /\ MapHas(cache, req[r1].url) /\ MapGet(cache, req[r1].url).at = req[r1].now


(* --------------------- the pair stored for a job --------------------- *)
\* listings of a job with one operation and of jobs whose operations
\* share an id or have none
PairJobs == << JobPool[1], TwinOpsJob, BareOpsJob >>
PairLists == SubSeqs(PairJobs, 1) \cup SubSeqs(PairJobs, 2)

PairInit ==
  /\ clock = Clock0
  /\ cache = << >>
  /\ opsCache = << >>
  /\ upJobs \in PairLists
  /\ query \in [s : {0, Since1}, u : {0, Until1}, allday : {"", "0"}]
  /\ req = [r \in Req |->
              IF r = 1
              THEN RouteHead(IdleReq,
                             [s |-> query.s, u |-> query.u, allday |-> query.allday,
                              ops |-> "1", key |-> ACCESS_KEY],
                             "", Clock0, << >>)
              ELSE IdleReq]
  /\ render = NoRender
  /\ picks = NoPicks
  /\ listing = NoListing

SpecPair == PairInit /\ [][EnrichNext]_vars

Operations(arr) == [i \in 1..Len(arr) |-> arr[i].operation]

\* the pairs that hold the operation primary (<< >>: none) of the list arr
\* and the item of the same record
PairsOfPrimary(arr, primary) ==
  IF primary = << >> THEN {<< >>}
  ELSE {<< [op |-> arr[i].operation, itm |-> arr[i].itemToMake] >> :
          i \in {k \in 1..Len(arr) : arr[k].operation = primary[1]}}

\* the jobs of request r whose operations were listed and paired
Paired(r) ==
  {i \in 1..Len(req[r].jobs) :
     req[r].jobs[i].id \in DOMAIN req[r].pm \ req[r].failed}

\* the entry of primaryOpByJob of job j holds its primary operation and
\* that operation's item
PairIsPrimary(pm, j) ==
  pm[j.id] \in PairsOfPrimary(OpsOfJob[j.id],
                              pickPrimaryOperation(j, Operations(OpsOfJob[j.id])))

UniqueIds(arr) ==
  \A i, k \in 1..Len(arr) :
    /\ arr[i].operation.id # ""
    /\ i # k => arr[i].operation.id # arr[k].operation.id

\* C25: the pair stored in primaryOpByJob for a job is the operation that
\* pickPrimaryOperation returns for it with the item of the same record,
\* whatever the ids of the operations, missing or duplicate.
C25_PairOfPrimary ==
  \A r \in Req : req[r].pc = "ops" =>
    \A i \in Paired(r) : PairIsPrimary(req[r].pm, req[r].jobs[i])

\* what holds: C25 for lists whose operations all have an id of their own
C25_PairOfPrimaryUniqueIds ==
  \A r \in Req : req[r].pc = "ops" =>
    \A i \in Paired(r) :
      UniqueIds(OpsOfJob[req[r].jobs[i].id]) => PairIsPrimary(req[r].pm, req[r].jobs[i])

\* C25 without the lists that share an id: operations without id only
C25_PairOfPrimaryNoIds ==
  \A r \in Req : req[r].pc = "ops" =>
    \A i \in Paired(r) :
      req[r].jobs[i].id # TwinOpsJob.id => PairIsPrimary(req[r].pm, req[r].jobs[i])

\* a job with one operation of its own id has been paired
C25_UniquePaired ==
  \E r \in Req : req[r].pc = "ops" /\
    \E i \in Paired(r) : UniqueIds(OpsOfJob[req[r].jobs[i].id])


(* ------------------------- frame of a cache hit ---------------------- *)
\* request r is received and finds a live entry for its URL
ServedFromCache(r) ==
  /\ ReadsResponse(r)
  /\ Live(CacheGet(req'[r].url), clock)

\* C26: a request answered from a live response cache entry is answered
\* 200 or 304 at once, without a job listing or an operation listing, and
\* leaves the response cache, the timestamp of its entry included, the
\* operation cache and the other requests as they are; nothing of it
\* happens later.
C26_HitChangesNothing ==
  [][\A r \in Req :
       /\ ServedFromCache(r) =>
            /\ req'[r].pc = "done" /\ req'[r].res.status \in {200, 304}
            /\ req'[r].listed = 0 /\ req'[r].taken = << >>
            /\ cache' = cache /\ opsCache' = opsCache
            /\ \A k \in Req \ {r} : req'[k] = req[k]
       /\ req[r].hit => req'[r] = req[r]]_vars

\* C26 witness: a request was answered 200 from the cache, which holds the
\* entry with the body it was answered with, while the operation cache
\* holds entries
C26_Witness ==
  \E r \in Req :
    /\ req[r].hit /\ req[r].res.status = 200 /\ req[r].listed = 0
    /\ MapHas(cache, req[r].url) /\ MapGet(cache, req[r].url).body = req[r].res.body
    /\ opsCache # << >>

(* ================== the rendering steps, one job at a time ============ *)
RECURSIVE Repeat(_, _)
\* n copies of x
Repeat(x, n) == IF n = 0 THEN "" ELSE x \o Repeat(x, n - 1)

\* leading ASCII letters of a job name
MaxPad == 3
\* how often a name repeats its character: a short name, names folded once
\* and a name folded several times
Reps == {5, 16, 17, 40}
\* the characters a name is made of: 1, 2, 3 and 4 UTF-8 bytes long, and
\* one that icsEscape escapes
Kinds == {"a", "~", "^", "{}", ","}

Names == {Repeat("x", p) \o Repeat(k, n) : p \in 0..MaxPad, k \in Kinds, n \in Reps}

\* instants with their UTC calendar date and the calendar date of the next
\* day, as the numbers yyyymmdd
Calendar ==
  { [t |-> 1704063600, date |-> 20231231, next |-> 20240101],   \* 2023-12-31T23:00:00Z
    [t |-> 1709114400, date |-> 20240228, next |-> 20240229],   \* 2024-02-28T10:00:00Z
    [t |-> 1709245800, date |-> 20240229, next |-> 20240301],   \* 2024-02-29T22:30:00Z
    [t |-> 1717200000, date |-> 20240601, next |-> 20240602],   \* 2024-06-01T00:00:00Z
    [t |-> 1717236000, date |-> 20240601, next |-> 20240602],   \* 2024-06-01T10:00:00Z
    [t |-> 1717239600, date |-> 20240601, next |-> 20240602],   \* 2024-06-01T11:00:00Z
    [t |-> 1719791999, date |-> 20240630, next |-> 20240701],   \* 2024-06-30T23:59:59Z
    [t |-> 1735632000, date |-> 20241231, next |-> 20250101],   \* 2024-12-31T08:00:00Z
    [t |-> 1740744000, date |-> 20250228, next |-> 20250301] }  \* 2025-02-28T12:00:00Z

Instants == {c.t : c \in Calendar}
DayOf(t) == CHOOSE c \in Calendar : c.t = t

\* the jobs rendered: every name on one pair of instants, and one name on
\* every pair of instants (0: no end)
RenderJobs ==
  {[BlankJob EXCEPT !.id = "J1", !.name = n,
                    !.scheduledStartUtc = T2, !.scheduledEndUtc = T3] : n \in Names}
  \cup {[BlankJob EXCEPT !.id = "J1", !.number = << 7 >>,
                         !.scheduledStartUtc = a, !.scheduledEndUtc = b] :
          a \in Instants, b \in Instants \cup {0}}

\* the state of the route when only the rendering or the selector runs
RouteIdle ==
  /\ clock = Clock0
  /\ cache = << >>
  /\ opsCache = << >>
  /\ upJobs = << >>
  /\ query = [s |-> 0, u |-> 0, allday |-> ""]
  /\ req = [r \in Req |-> IdleReq]

RenderInit ==
  /\ RouteIdle
  /\ picks = NoPicks
  /\ listing = NoListing
  /\ render \in {[NoRender EXCEPT !.job = j, !.allDay = a] :
                   j \in RenderJobs, a \in BOOLEAN}

\* steps 3 and 4 of the route for the listing << job >>: events, icsBody, ics
Build ==
  /\ render.ics = ""
  /\ render' = [render EXCEPT !.ics =
       Ics(IcsBody(EventsOf(<< render.job >>, << >>, 0, 0), render.allDay, clock))]
  /\ UNCHANGED << clock, cache, opsCache, upJobs, query, req, picks, listing >>

\* const safeIcs = finalizeIcs(ics)
Finalize ==
  /\ render.ics # "" /\ render.safeIcs = ""
  /\ render' = [render EXCEPT !.safeIcs = finalizeIcs(render.ics)]
  /\ UNCHANGED << clock, cache, opsCache, upJobs, query, req, picks, listing >>

\* code unit i of s is a surrogate without its other half
Lone(s, i) ==
  \/ Char(s, i) = "{" /\ ~(i < Len(s) /\ Char(s, i + 1) = "}")
  \/ Char(s, i) = "}" /\ ~(i > 1 /\ Char(s, i - 1) = "{")

RECURSIVE utf8From(_, _)
utf8From(s, i) ==
  LET lone == {k \in i..Len(s) : Lone(s, k)}
  IN  IF lone = {} THEN SubSeq(s, i, Len(s))
      ELSE SubSeq(s, i, Least(lone) - 1) \o "?" \o utf8From(s, Least(lone) + 1)

\* the text of the bytes that res.send(s) writes with charset=utf-8: a lone
\* surrogate is written as EF BF BD, the character U+FFFD (here "?")
utf8(s) == utf8From(s, 1)

\* res.status(200).send(safeIcs)
Transmit ==
  /\ render.safeIcs # "" /\ render.sent = ""
  /\ render' = [render EXCEPT !.sent = utf8(render.safeIcs)]
  /\ UNCHANGED << clock, cache, opsCache, upJobs, query, req, picks, listing >>

RenderNext == Build \/ Finalize \/ Transmit

SpecRender == RenderInit /\ [][RenderNext]_vars

\* the event of the job being rendered
Rendered == EventsOf(<< render.job >>, << >>, 0, 0)[1]

\* the 8 digits of a date number
Digits(n) == ToString(n)

\* C7: in all-day mode DTSTART;VALUE=DATE is the UTC calendar date of the
\* event start, DTEND;VALUE=DATE is the UTC calendar date of the day after
\* the event's inclusive end, across month and year boundaries, and DTEND
\* is later than DTSTART whenever end >= start.
C7_AllDayDates ==
  (render.allDay /\ render.safeIcs # "") =>
    /\ Contains(render.safeIcs,
                "\r\nDTSTART;VALUE=DATE:" \o Digits(DayOf(Rendered.start).date) \o "\r\n")
    /\ Contains(render.safeIcs,
                "\r\nDTEND;VALUE=DATE:" \o Digits(DayOf(Rendered.end).next) \o "\r\n")
    /\ Rendered.end >= Rendered.start
         => DayOf(Rendered.end).next > DayOf(Rendered.start).date

\* C7 witness: an all-day event that ends on the last day of a year was
\* rendered.
C7_Witness ==
  /\ render.allDay /\ render.safeIcs # ""
  /\ DayOf(Rendered.end).date = 20241231
  /\ DayOf(Rendered.start).date = 20240229
  /\ Contains(render.safeIcs, "DTEND;VALUE=DATE:20250101")

\* the lines of the folded document
OutLines == SplitCRLF(render.safeIcs)

\* no line of the folded document exceeds 75 octets
WithinOctets == \A i \in 1..Len(OutLines) : byteLength(OutLines[i]) <= FOLD_OCTETS

RECURSIVE UnfoldFrom(_, _)
\* s from position i on without each CRLF that a space follows, and
\* without that space
UnfoldFrom(s, i) ==
  LET at == {k \in i..(Len(s) - 2) : Char(s, k) = "\r" /\ SubSeq(s, k, k + 2) = "\r\n "}
  IN  IF at = {} THEN SubSeq(s, i, Len(s))
      ELSE SubSeq(s, i, Least(at) - 1) \o UnfoldFrom(s, Least(at) + 3)

Unfold(s) == UnfoldFrom(s, 1)

\* every continuation line begins with one added space: taking one space
\* off each gives the lines back
OneSpaceAdded == Unfold(render.safeIcs) = render.ics \o "\r\n"

\* no line ends between the two halves of a surrogate pair
NoSplitCharacter == ~Contains(render.safeIcs, "{\r\n }")

\* C8: no folded line exceeds 75 UTF-8 octets, every continuation line
\* begins with exactly one added space, and no split falls inside a
\* multi-byte character.
C8_FoldKeepsCharacters ==
  render.safeIcs # "" => WithinOctets /\ OneSpaceAdded /\ NoSplitCharacter

\* C9: removing each CRLF that a space follows, and that space, from the
\* folded document that is sent gives the unfolded document back.
C9_UnfoldRecovers ==
  render.sent # "" => Unfold(render.sent) = utf8(render.ics \o "\r\n")

(* ---------------------- the UIDs of the route's feeds ---------------- *)
\* how often sub occurs in s
Count(s, sub) ==
  Cardinality({i \in 1..(Len(s) - Len(sub) + 1) :
                 Char(s, i) = Char(sub, 1) /\ SubSeq(s, i, i + Len(sub) - 1) = sub})

\* the job identifiers whose UID line sha1("fulcrum:" + id) + "@bettis" is
\* in the feed
UidsIn(body) ==
  {id \in JobIds :
     Contains(body, "\r\nUID:" \o sha1("fulcrum:" \o id) \o "@bettis" \o "\r\n")}

\* the feed has the event of the job id (its description ends with the
\* job identifier)
Describes(body, id) == Contains(Unfold(body), "Job ID: " \o id \o "\r\n")

\* in the feed: the event of each listed job that has one carries the UID
\* of its identifier, and as many different UIDs as events
UidsByJobId(body) ==
  /\ \A i \in 1..Len(upJobs) : Describes(body, upJobs[i].id) <=> upJobs[i].id \in UidsIn(body)
  /\ Count(body, "\r\nUID:") = Count(body, "\r\nBEGIN:VEVENT\r\n")
  /\ Count(body, "\r\nUID:") = Cardinality(UidsIn(body))

\* C14: the UID of an event depends on the job identifier only - in every
\* feed, whenever and however it is rendered or served, the event of job id
\* has the UID sha1("fulcrum:" + id) + "@bettis" - and the events of one
\* feed have different UIDs.
C14_UidOfJobId == \A r \in Req : Done200(r) => UidsByJobId(req[r].res.body)

\* C14 witness: feeds with two events each were sent at different times,
\* one rendered with operations and one without.
C14_Witness ==
  \E r1, r2 \in Req :
    /\ Done200(r1) /\ Done200(r2)
    /\ ~req[r1].hit /\ ~req[r2].hit
    /\ req[r1].url.ops = "1" /\ req[r2].url.ops = ""
    /\ req[r1].res.body # req[r2].res.body
    /\ Count(req[r1].res.body, "\r\nUID:") = 2
    /\ UidsIn(req[r1].res.body) = UidsIn(req[r2].res.body)

(* ============== the operation selector, one input at a time ========== *)
\* operations in a list
MaxOps == 3

PickJobs ==
  { [BlankJob EXCEPT !.id = "J1"],
    [BlankJob EXCEPT !.id = "J1", !.scheduledStartUtc = T2],
    [BlankJob EXCEPT !.id = "J1", !.scheduledStartUtc = T2, !.scheduledEndUtc = T3] }

PickOps ==
  { [NullOp EXCEPT !.id = "a", !.scheduledStartUtc = T2, !.scheduledEndUtc = T3],
    [NullOp EXCEPT !.id = "b", !.scheduledStartUtc = T2, !.scheduledEndUtc = T3],
    [NullOp EXCEPT !.id = "c", !.scheduledStartUtc = T1, !.scheduledEndUtc = T1],
    [NullOp EXCEPT !.id = "d", !.name = "unscheduled"],
    [NullOp EXCEPT !.id = "e", !.originalScheduledStartUtc = T2] }

\* the lists of at most MaxOps different operations
PickLists ==
  UNION {{q \in [1..n -> PickOps] : \A i, j \in 1..n : i # j => q[i] # q[j]} :
           n \in 0..MaxOps}

PickInit ==
  /\ RouteIdle
  /\ render = NoRender
  /\ listing = NoListing
  /\ picks \in {[NoPicks EXCEPT !.job = j, !.ops = o] : j \in PickJobs, o \in PickLists}

\* pickPrimaryOperation(job, ops) is called
Pick ==
  /\ picks.calls = 0
  /\ picks' = [picks EXCEPT !.calls = 1,
                            !.first = pickPrimaryOperation(picks.job, picks.ops)]
  /\ UNCHANGED << clock, cache, opsCache, upJobs, query, req, render, listing >>

\* pickPrimaryOperation is called on the same input again
PickAgain ==
  /\ picks.calls = 1
  /\ picks' = [picks EXCEPT !.calls = 2,
                            !.second = pickPrimaryOperation(picks.job, picks.ops)]
  /\ UNCHANGED << clock, cache, opsCache, upJobs, query, req, render, listing >>

PickNext == Pick \/ PickAgain

SpecPick == PickInit /\ [][PickNext]_vars

\* the positions of ops that have a start
Scheduled == {i \in 1..Len(picks.ops) : OpStart(picks.ops[i]) # 0}

\* the operation at i starts before the one at k, or with it and i is
\* earlier in the input
Ahead(i, k) ==
  \/ OpStart(picks.ops[i]) < OpStart(picks.ops[k])
  \/ OpStart(picks.ops[i]) = OpStart(picks.ops[k]) /\ i < k

\* the operation at i lies in the job's window
InWindow(i) ==
  IF JobEnd(picks.job) # 0
  THEN /\ OpStart(picks.ops[i]) <= JobEnd(picks.job)
       /\ OrT(OpEnd(picks.ops[i]), OpStart(picks.ops[i])) >= JobStart(picks.job)
  ELSE OpStart(picks.ops[i]) >= JobStart(picks.job)

\* the positions the selector chooses among
Eligible ==
  IF JobStart(picks.job) # 0 /\ \E i \in Scheduled : InWindow(i)
  THEN {i \in Scheduled : InWindow(i)}
  ELSE Scheduled

\* C10: two calls of pickPrimaryOperation on the same (job, operations)
\* return the same operation, or both none; of the operations with the
\* earliest start the one that is first in the input is returned.
C10_PickDeterministic ==
  picks.calls = 2 =>
    /\ picks.first = picks.second
    /\ IF Scheduled = {} THEN picks.first = << >>
       ELSE \E i \in Eligible :
              /\ picks.first = << picks.ops[i] >>
              /\ \A k \in Eligible \ {i} : Ahead(i, k)

\* C10 witness: the selector was called twice on a list in which another
\* operation has the start of the one returned and comes after it.
C10_Witness ==
  /\ picks.calls = 2 /\ picks.first # << >>
  /\ \E i, k \in Eligible :
       /\ i < k
       /\ picks.first = << picks.ops[i] >>
       /\ OpStart(picks.ops[i]) = OpStart(picks.ops[k])

\* the positions of the candidates that overlap the job's window
Overlapping == {i \in Scheduled : InWindow(i)}

\* the first call returned the operation at one of the positions among,
\* none of which starts before it
FirstOf(among) ==
  \E i \in among :
    /\ picks.first = << picks.ops[i] >>
    /\ \A k \in among : OpStart(picks.ops[i]) <= OpStart(picks.ops[k])

\* C22: pickPrimaryOperation returns none exactly when no operation has a
\* start, else an operation of the list that has one: for a job with a
\* start the first, by start, of the candidates overlapping the job's
\* window, and the earliest candidate when none overlaps or the job has
\* no start.
C22_PickOverlapping ==
  picks.calls >= 1 =>
    /\ picks.first = << >> <=> Scheduled = {}
    /\ Scheduled # {} =>
         IF JobStart(picks.job) # 0 /\ Overlapping # {}
         THEN FirstOf(Overlapping)
         ELSE FirstOf(Scheduled)

\* C22 witness: for a job with a start and an end the selector returned an
\* overlapping operation although another candidate starts earlier.
C22_Witness ==
  /\ picks.calls >= 1 /\ JobStart(picks.job) # 0 /\ JobEnd(picks.job) # 0
  /\ \E i \in Overlapping, k \in Scheduled \ Overlapping :
       /\ picks.first = << picks.ops[i] >>
       /\ OpStart(picks.ops[k]) < OpStart(picks.ops[i])

\* the fallback of C22 occurs: no candidate overlaps the window of a job
\* with a start, and the earliest candidate is returned
C22_NoneOverlaps ==
  /\ picks.calls >= 1 /\ JobStart(picks.job) # 0
  /\ Scheduled # {} /\ Overlapping = {} /\ picks.first # << >>

(* ============ the status filter of the job listing, one request ====== *)
\* tokens in a statuses parameter
MaxTokens == 2

\* what a client may write between the commas
Tokens == {"scheduled", "Scheduled", " in_progress ", "IN-PROGRESS", "inProgress",
           "queued", "completed", "canceled", "bogus", "done", ""}

\* the values of the statuses parameter ("": the parameter is absent)
StatusQueries ==
  UNION {{Join(q, ",") : q \in [1..n -> Tokens]} : n \in 0..MaxTokens}

ListingInit ==
  /\ RouteIdle
  /\ render = NoRender
  /\ picks = NoPicks
  /\ listing \in {[NoListing EXCEPT !.statuses = q] : q \in StatusQueries}

\* the route from the statuses parameter to listBody: listBody.status for
\* one status, listBody.statuses for several
BuildListBody ==
  /\ ~listing.sent
  /\ listing' = [listing EXCEPT
       !.sent = TRUE,
       !.status = IF Len(finalStatuses(listing.statuses)) = 1
                  THEN << finalStatuses(listing.statuses)[1] >> ELSE << >>,
       !.list = IF Len(finalStatuses(listing.statuses)) > 1
                THEN finalStatuses(listing.statuses) ELSE << >>]
  /\ UNCHANGED << clock, cache, opsCache, upJobs, query, req, render, picks >>

ListingNext == BuildListBody

SpecListing == ListingInit /\ [][ListingNext]_vars

\* the statuses the upstream filter of listBody selects
SentFilter ==
  {listing.status[i] : i \in 1..Len(listing.status)}
    \cup {listing.list[i] : i \in 1..Len(listing.list)}

\* the tokens of the parameter: the non-empty trimmed pieces between commas
GivenTokens ==
  {t \in {trim(SplitComma(listing.statuses)[i]) : i \in 1..Len(SplitComma(listing.statuses))} :
     t # ""}

\* t is a key of the friendly-name table, whatever its case
Recognised(t) == \E e \in STATUS_MAP : e[1] = toLowerCase(t)

\* C13: a statuses parameter with a token that is no key of the
\* friendly-name table makes the request use the default set
\* {scheduled, inProgress}; recognised tokens are matched whatever their
\* case and replaced by their upstream enum.
C13_UnknownTokenDefaults ==
  listing.sent =>
    IF \E t \in GivenTokens : ~Recognised(t)
    THEN SentFilter = {"scheduled", "inProgress"}
    ELSE IF GivenTokens = {} THEN SentFilter = {"scheduled", "inProgress"}
    ELSE SentFilter = {StatusGet(toLowerCase(t)) : t \in GivenTokens}

====
